---- MODULE Spec2Model ----
(***************************************************************************)
(* Model of the MCP server template of src/PROMPT.md (Step 2.2, the        *)
(* "<name>_mcp_server.py" listing): the widget registry, the tool-call     *)
(* handler _call_tool_request and the cached asset loader                  *)
(* _load_widget_html,                                                      *)
(* together with the widgets that run in the host: the template App,       *)
(* KitchenSinkLite (src/unnamed/part_000), DeliveryQuickApp and            *)
(* DeliveryRestaurantsApp (src/web/src).                                   *)
(*                                                                         *)
(* The specifications of the module share Init and the variables:          *)
(*   SpecResolver     the assets directory and _load_widget_html           *)
(*   SpecDispatcher   _call_tool_request, one invocation after another     *)
(*   SpecRegistry     the import of the server module                      *)
(*   SpecServer       invocations served at the same time                  *)
(*   SpecWidget       the widgets and the widget state the host holds      *)
(*   SpecQuick        DeliveryQuickApp with its tool outputs               *)
(*   SpecRestaurants  DeliveryRestaurantsApp                               *)
(*   SpecKitchen      the host API cards of KitchenSinkLite                *)
(* Each leaves the other components' variables unchanged.                  *)
(***************************************************************************)
EXTENDS Naturals, Integers, Sequences, FiniteSets, TLC

VARIABLES
    files,      \* the assets directory: file name -> content, or Absent
    cache,      \* the lru_cache of _load_widget_html: component -> content, or NoEntry
    loads,      \* per component, how many times the body read a file (read_text)
    resolved,   \* what the last call of _load_widget_html did
    first,      \* per component, the content of its first successful call
                \* and the file it was read from
    failed,     \* the components for which a call has raised FileNotFoundError
    pc,         \* _call_tool_request: "idle", "awaiting" (at the await), "done"
    req,        \* the CallToolRequest being served: [name, arguments]
    payload,    \* the validated MyToolInput, or NoPayload
    fetchCalls, \* calls of _fetch_from_api made by the current invocation
    outcome,    \* what _fetch_from_api did in the current invocation
    result,     \* the CallToolResult returned, or NoResult
    app,        \* which widget this widget instance runs
    mounted,    \* whether the widget instance is mounted
    hostState,  \* the widget state document the host holds for the instance
    rendered,   \* widgetState as the last render of the component saw it
    noteDraft,  \* kitchen sink: the note being edited
    highlightDraft, \* kitchen sink: the checkbox being edited
    toolOutput, \* window.openai.toolOutput
    isCalling,  \* kitchen sink: a callTool of handleCallTool is in flight
    callResult, \* kitchen sink: the serialized response, or Null
    callError,  \* kitchen sink: the error message, or Null
    displayModeResult, \* kitchen sink: the mode the host granted, or ""
    lastOp,     \* the handler or host event that made the last step
    written,    \* the document the last write() was to store
    unrendered, \* writes since the component last rendered
    phase,      \* the import of the server module: "building", "ready", "failed"
    widgetList, \* the widgets list as far as it is built
    byId,       \* WIDGETS_BY_ID as built from the list
    byUri,      \* WIDGETS_BY_URI as built from the list
    tasks,      \* the invocations the transport has handed to _call_tool_request
    events,     \* kitchen sink: the event log, newest entry first
    anyToolArgs,    \* kitchen sink: the text of the arguments field
    anyToolResult,  \* kitchen sink: the serialized response of the any-tool call, or Null
    anyToolError,   \* kitchen sink: the error message of the any-tool call, or Null
    anyToolLoading, \* kitchen sink: a callTool of handleCallAnyTool is in flight
    anyToolCall     \* the arguments handleCallAnyTool last gave to callTool

resolverVars == <<files, cache, loads, resolved, first, failed>>
dispatcherVars == <<pc, req, payload, fetchCalls, outcome, result>>
anyToolVars == <<anyToolArgs, anyToolResult, anyToolError, anyToolLoading, anyToolCall>>
widgetVars == <<app, mounted, hostState, rendered, noteDraft, highlightDraft,
                toolOutput, isCalling, callResult, callError, displayModeResult,
                lastOp, written, unrendered, events, anyToolVars>>
vars == <<files, cache, loads, resolved, first, failed, pc, req, payload, fetchCalls, outcome, result,
          app, mounted, hostState, rendered, noteDraft, highlightDraft,
          toolOutput, isCalling, callResult, callError, displayModeResult, lastOp,
          written, unrendered, phase, widgetList, byId, byUri, tasks,
          events, anyToolArgs, anyToolResult, anyToolError, anyToolLoading, anyToolCall>>
registryVars == <<phase, widgetList, byId, byUri>>
serverVars == <<tasks>>

\* What each component's actions leave alone.
notResolverVars == <<dispatcherVars, widgetVars, registryVars, serverVars>>
notDispatcherVars == <<resolverVars, widgetVars, registryVars, serverVars>>
notWidgetVars == <<resolverVars, dispatcherVars, registryVars, serverVars>>
notServerVars == <<resolverVars, dispatcherVars, widgetVars, registryVars>>
\* Building the registry calls _load_widget_html.
notRegistryVars == <<dispatcherVars, widgetVars, serverVars>>

(***************************************************************************)
(* Bounds of the model.                                                    *)
(***************************************************************************)
\* At most this many files are present in the assets directory at once.
MaxFiles == 3
\* The external API answers with at most this many result items.
MaxApiItems == 2

(***************************************************************************)
(* Text.  File and component names are sequences of character codes, so    *)
(* that sorted() and glob() can be computed on them as Python does.        *)
(***************************************************************************)
\* "widget"
WidgetName == <<119, 105, 100, 103, 101, 116>>
\* "widget-a"
WidgetAName == WidgetName \o <<45, 97>>
\* ".html", the extension of line 282 and of the glob pattern of line 286
HtmlExt == <<46, 104, 116, 109, 108>>
\* ".js": the build also writes <widget-name>-<hash>.js beside the html
JsExt == <<46, 106, 115>>
\* "-", the separator of the glob pattern of line 286
DashSep == <<45>>

\* The component names _load_widget_html is called with.
Components == {WidgetName, WidgetAName}

FileWidget == WidgetName \o HtmlExt
FileAaa == WidgetName \o DashSep \o <<97, 97, 97>> \o HtmlExt
FileBbb == WidgetName \o DashSep \o <<98, 98, 98>> \o HtmlExt
FileA == WidgetName \o DashSep \o <<97>> \o HtmlExt
FileADash == WidgetName \o DashSep \o <<97, 45>> \o HtmlExt
FileBbbJs == WidgetName \o DashSep \o <<98, 98, 98>> \o JsExt

\* The file names the build may write into the assets directory:
\* widget.html, widget-aaa.html, widget-bbb.html, widget-a.html (which is
\* also the exact file of component "widget-a"), widget-a-.html, widget-bbb.js.
FileNames == {FileWidget, FileAaa, FileBbb, FileA, FileADash, FileBbbJs}

Contents == {"html1", "html2"}
Absent == "absent"
NoEntry == "no entry"

\* str < str of Python: code point by code point, a proper prefix is smaller.
RECURSIVE LexLess(_, _)
LexLess(a, b) ==
    IF b = <<>> THEN FALSE
    ELSE IF a = <<>> THEN TRUE
    ELSE IF Head(a) # Head(b) THEN Head(a) < Head(b)
    ELSE LexLess(Tail(a), Tail(b))

StartsWith(s, p) == Len(s) >= Len(p) /\ SubSeq(s, 1, Len(p)) = p
EndsWith(s, e) == Len(s) >= Len(e) /\ SubSeq(s, Len(s) - Len(e) + 1, Len(s)) = e

(***************************************************************************)
(* The Resource Resolver: _load_widget_html under @lru_cache.              *)
(***************************************************************************)
\* ASSETS_DIR / f"{component_name}.html"
HtmlPath(component) == component \o HtmlExt

\* html_path.exists()
Exists(fs, f) == f \in DOMAIN fs /\ fs[f] # Absent

\* A name matches f"{component_name}-*.html": the prefix, then anything
\* (also nothing), then the extension, the two not overlapping.
GlobMatches(component, f) ==
    /\ StartsWith(f, component \o DashSep)
    /\ EndsWith(f, HtmlExt)
    /\ Len(f) >= Len(component) + Len(DashSep) + Len(HtmlExt)

\* ASSETS_DIR.glob(f"{component_name}-*.html"): the stored files that match.
Glob(fs, component) == {f \in DOMAIN fs : fs[f] # Absent /\ GlobMatches(component, f)}

\* sorted(...): ascending by name.
RECURSIVE Sorted(_)
Sorted(S) ==
    IF S = {} THEN <<>>
    ELSE LET m == CHOOSE x \in S : \A y \in S \ {x} : LexLess(x, y)
         IN <<m>> \o Sorted(S \ {m})

\* fallback_candidates[0]: the smallest name instead of the greatest
PickFirst(candidates) == candidates[1]

\* fallback_candidates[-1]
PickFallback(candidates) == candidates[Len(candidates)]

\* ASSETS_DIR, the directory the loader searches
ASSETS_DIR == "mcp/assets"

NoMessage == [fmt |-> "", args |-> <<>>]

\* The message without the directory
NotFoundMessageNoRoot(component) ==
    [fmt |-> "Widget HTML for {} not found in {}. Run pnpm run build in web/ to generate assets.",
     args |-> <<component>>]

\* The message of the FileNotFoundError: it names the component and ASSETS_DIR.
NotFoundMessage(component) ==
    [fmt |-> "Widget HTML for {} not found in {}. Run pnpm run build in web/ to generate assets.",
     args |-> <<component, ASSETS_DIR>>]

\* raise FileNotFoundError(...): nothing was read
NotFound == [kind |-> "FileNotFoundError", file |-> <<>>, searched |-> TRUE]

\* The body with the two lookups in the other order: the glob search first,
\* the exact file only when no variant is stored.
LoadBodyFallbackFirst(fs, component) ==
    LET fallback_candidates == Sorted(Glob(fs, component))
    IN IF fallback_candidates # <<>>
       THEN [kind |-> "ok", file |-> fallback_candidates[Len(fallback_candidates)],
             searched |-> TRUE]
       ELSE IF Exists(fs, HtmlPath(component))
            THEN [kind |-> "ok", file |-> HtmlPath(component), searched |-> TRUE]
            ELSE NotFound

\* The body without the fallback search: only the exact file is looked up.
LoadBodyExactOnly(fs, component) ==
    IF Exists(fs, HtmlPath(component))
    THEN [kind |-> "ok", file |-> HtmlPath(component), searched |-> FALSE]
    ELSE NotFound

\* The body of _load_widget_html on the directory fs: which file it reads
\* (or that it raises), and whether it ran the glob search.
LoadBody(fs, component) ==
    IF Exists(fs, HtmlPath(component))
    THEN [kind |-> "ok", file |-> HtmlPath(component), searched |-> FALSE]
    ELSE LET fallback_candidates == Sorted(Glob(fs, component))
         IN IF fallback_candidates # <<>>
            THEN [kind |-> "ok", file |-> PickFallback(fallback_candidates),
                  searched |-> TRUE]
            ELSE NotFound

\* The function without the @lru_cache decorator: every call runs the body.
CacheNeverHit(c, component) == FALSE

\* @lru_cache(maxsize=None): a call with a key the cache holds does not run the body.
CacheHit(c, component) == c[component] # NoEntry

NumPresent(fs) == Cardinality({f \in DOMAIN fs : fs[f] # Absent})

NoFirst == [content |-> NoEntry, file |-> <<>>]

InitResolver ==
    /\ files = [f \in FileNames |-> Absent]
    /\ cache = [c \in Components |-> NoEntry]
    /\ loads = [c \in Components |-> 0]
    /\ resolved = [component |-> <<>>, kind |-> "none", content |-> Absent,
                   file |-> <<>>, hit |-> FALSE, searched |-> FALSE,
                   message |-> NoMessage]
    /\ first = [c \in Components |-> NoFirst]
    /\ failed = {}

\* The build (pnpm run build) writes or rewrites an asset.
WriteFile(f, h) ==
    /\ files[f] # h
    /\ files[f] = Absent => NumPresent(files) < MaxFiles
    /\ files' = [files EXCEPT ![f] = h]
    /\ UNCHANGED <<cache, loads, resolved, first, failed>>
    /\ UNCHANGED notResolverVars

\* An asset is removed (a rebuild replaces the hashed files).
DeleteFile(f) ==
    /\ files[f] # Absent
    /\ files' = [files EXCEPT ![f] = Absent]
    /\ UNCHANGED <<cache, loads, resolved, first, failed>>
    /\ UNCHANGED notResolverVars

\* One call _load_widget_html(component), as its caller sees it.
CallLoadWidgetHtml(component) ==
    /\ IF CacheHit(cache, component)
       THEN /\ resolved' = [component |-> component, kind |-> "ok",
                            content |-> cache[component],
                            file |-> first[component].file, hit |-> TRUE,
                            searched |-> FALSE, message |-> NoMessage]
            /\ UNCHANGED <<cache, loads>>
       ELSE LET r == LoadBody(files, component)
            IN IF r.kind = "ok"
               THEN /\ resolved' = [component |-> component, kind |-> "ok",
                                    content |-> files[r.file], file |-> r.file,
                                    hit |-> FALSE, searched |-> r.searched,
                                    message |-> NoMessage]
                    /\ cache' = [cache EXCEPT ![component] = files[r.file]]
                    /\ loads' = [loads EXCEPT ![component] = @ + 1]
               ELSE /\ resolved' = [component |-> component, kind |-> r.kind,
                                    content |-> Absent, file |-> r.file,
                                    hit |-> FALSE, searched |-> r.searched,
                                    message |-> NotFoundMessage(component)]
                    /\ UNCHANGED <<cache, loads>>
    /\ first' = IF resolved'.kind = "ok" /\ first[component] = NoFirst
                THEN [first EXCEPT ![component] =
                          [content |-> resolved'.content, file |-> resolved'.file]]
                ELSE first
    /\ failed' = IF resolved'.kind = "ok" THEN failed ELSE failed \cup {component}
    /\ UNCHANGED files

\* One call _load_widget_html(component).
LoadWidgetHtml(component) ==
    /\ CallLoadWidgetHtml(component)
    /\ UNCHANGED notResolverVars

NextResolver ==
    \/ \E f \in FileNames, h \in Contents : WriteFile(f, h)
    \/ \E f \in FileNames : DeleteFile(f)
    \/ \E component \in Components : LoadWidgetHtml(component)


(***************************************************************************)
(* The registry: the widgets list and its two lookup tables.               *)
(***************************************************************************)
\* The widgets list (the template holds one entry; two are modelled so that
\* one tool's strings can be told from another's).
widgets == <<
    [identifier |-> "tool-a", title |-> "Tool A",
     template_uri |-> "ui://widget/widget.html",
     invoking |-> "Loading A...", invoked |-> "Loaded A",
     response_text |-> "Successfully loaded data"],
    [identifier |-> "tool-b", title |-> "Tool B",
     template_uri |-> "ui://widget/widget-a.html",
     invoking |-> "Loading B...", invoked |-> "Loaded B",
     response_text |-> "Successfully loaded data"] >>

\* TOOL_INPUT_SCHEMA, the schema the tool listing advertises: the names of
\* its properties, the required ones, and additionalProperties.
TOOL_INPUT_SCHEMA ==
    [properties |-> {"query", "limit"},
     required |-> {"query"},
     additionalProperties |-> FALSE]

\* {w.identifier: w for w in widgets}: a later entry replaces an earlier one.
WIDGETS_BY_ID ==
    [id \in {widgets[i].identifier : i \in DOMAIN widgets} |->
        LET last == CHOOSE i \in DOMAIN widgets :
                        /\ widgets[i].identifier = id
                        /\ \A j \in DOMAIN widgets :
                               widgets[j].identifier = id => j <= i
        IN widgets[last]]

\* A lookup with a default, WIDGETS_BY_ID.get(name, widgets[0]): never a miss.
LookupWidgetWithDefault(name) ==
    [found |-> TRUE,
     widget |-> IF name \in DOMAIN WIDGETS_BY_ID THEN WIDGETS_BY_ID[name]
                ELSE widgets[1]]

\* WIDGETS_BY_ID.get(name): [found, widget]
LookupWidget(name) ==
    IF name \in DOMAIN WIDGETS_BY_ID
    THEN [found |-> TRUE, widget |-> WIDGETS_BY_ID[name]]
    ELSE [found |-> FALSE, widget |-> widgets[1]]

\* The tool names a caller may send: the registered ones and one that is not.
RequestNames == {"tool-a", "tool-b", "no-such-tool"}

\* _tool_meta(widget): the metadata of the listings
ToolMeta(widget) ==
    [k \in {"openai/outputTemplate", "openai/toolInvocation/invoking",
            "openai/toolInvocation/invoked", "openai/widgetAccessible"} |->
        CASE k = "openai/outputTemplate" -> widget.template_uri
          [] k = "openai/toolInvocation/invoking" -> widget.invoking
          [] k = "openai/toolInvocation/invoked" -> widget.invoked
          [] OTHER -> "True"]

\* The two status strings under each other's key.
ToolInvocationMetaSwapped(widget) ==
    [k \in {"openai/toolInvocation/invoking", "openai/toolInvocation/invoked"} |->
        IF k = "openai/toolInvocation/invoking" THEN widget.invoked
        ELSE widget.invoking]

\* _tool_invocation_meta(widget): the metadata of a tool result
ToolInvocationMeta(widget) ==
    [k \in {"openai/toolInvocation/invoking", "openai/toolInvocation/invoked"} |->
        IF k = "openai/toolInvocation/invoking" THEN widget.invoking
        ELSE widget.invoked]

(***************************************************************************)
(* The input schema: MyToolInput, validated by pydantic.                   *)
(***************************************************************************)
\* Wire values of an argument: a string, an integer or null.
StrArg(s) == [t |-> "str", s |-> s, n |-> 0]
IntArg(n) == [t |-> "int", s |-> "", n |-> n]
NullArg == [t |-> "null", s |-> "", n |-> 0]
ArgValues == {StrArg("pizza"), StrArg("3"), IntArg(7), NullArg}

\* The argument names a caller may send: the two declared fields and one other.
ArgNames == {"query", "limit", "page"}

\* The argument maps a caller may send.
ArgMaps == UNION {[S -> ArgValues] : S \in SUBSET ArgNames}

\* Field(10, ...): the default of limit
DefaultLimit == 10

\* query declared with a default, query: str = Field("", ...): not required.
MyToolInputFieldsQueryOptional ==
    [f \in {"query", "limit"} |->
        IF f = "query" THEN [type |-> "str", required |-> FALSE]
        ELSE [type |-> "int", required |-> FALSE]]

\* class MyToolInput: field -> [type, required]; extra="forbid"
MyToolInputFields ==
    [f \in {"query", "limit"} |->
        IF f = "query" THEN [type |-> "str", required |-> TRUE]
        ELSE [type |-> "int", required |-> FALSE]]

\* extra="ignore", pydantic's default when the model_config line is left out.
ExtraIgnored == FALSE

\* model_config extra="forbid": names outside the declared fields are errors.
ExtraForbidden == TRUE

\* int("..."): the strings of ArgValues that parse as an integer
ParsesAsInt(s) == s = "3"
IntOf(s) == IF s = "3" THEN 3 ELSE 0

\* The errors pydantic reports for one declared field (lax mode: a numeric
\* string is accepted for an int, nothing but a str for a str).
FieldErrors(f, arguments) ==
    IF f \notin DOMAIN arguments
    THEN IF MyToolInputFields[f].required
         THEN {[type |-> "missing", loc |-> f]} ELSE {}
    ELSE LET v == arguments[f]
         IN IF MyToolInputFields[f].type = "str"
            THEN IF v.t = "str" THEN {} ELSE {[type |-> "string_type", loc |-> f]}
            ELSE IF v.t = "int" THEN {}
                 ELSE IF v.t = "str"
                      THEN IF ParsesAsInt(v.s) THEN {}
                           ELSE {[type |-> "int_parsing", loc |-> f]}
                      ELSE {[type |-> "int_type", loc |-> f]}

ExtraErrors(arguments) ==
    IF ExtraForbidden
    THEN {[type |-> "extra_forbidden", loc |-> f] :
              f \in DOMAIN arguments \ DOMAIN MyToolInputFields}
    ELSE {}

\* MyToolInput.model_validate(arguments): exc.errors() (as a set: the order
\* of the list is not modelled), and the payload when there is none.
ModelValidate(arguments) ==
    LET errors == UNION {FieldErrors(f, arguments) : f \in DOMAIN MyToolInputFields}
                      \cup ExtraErrors(arguments)
    IN [errors |-> errors,
        query |-> IF "query" \in DOMAIN arguments THEN arguments["query"].s ELSE "",
        limit |-> IF "limit" \notin DOMAIN arguments THEN DefaultLimit
                  ELSE IF arguments["limit"].t = "int" THEN arguments["limit"].n
                  ELSE IntOf(arguments["limit"].s)]

NoPayload == [valid |-> FALSE, query |-> "", limit |-> 0]

(***************************************************************************)
(* The handler: _fetch_from_api.  The listing runs Option B (mock data);   *)
(* Option A is the real call the except clauses of _call_tool_request are  *)
(* written for.  What the external API does is an input of the model.      *)
(***************************************************************************)
\* f"..." : the template and the values put into it
Text(fmt, args) == [fmt |-> fmt, args |-> args]

ItemFields == {"id", "name", "description", "image_url", "rating"}

\* range(min(limit, 5)): the mock returns at most this many items
MockMaxItems == 5

Min(a, b) == IF a <= b THEN a ELSE b

\* Option B: ItemData(id=f"item-{i}", ...) for i in range(min(limit, 5));
\* the rating 4.0 + (i % 10) / 10 is kept in tenths.
MockItem(i, query) ==
    [id |-> Text("item-{}", <<i>>),
     name |-> Text("Item {}: {}", <<i, query>>),
     description |-> Text("Description for item {}", <<i>>),
     image_url |-> Text("https://picsum.photos/seed/{}/200", <<i>>),
     rating |-> 40 + (i % 10)]

MockItems(query, limit) ==
    LET n == IF Min(limit, MockMaxItems) > 0 THEN Min(limit, MockMaxItems) ELSE 0
    IN [k \in 1..n |-> MockItem(k - 1, query)]

\* The entries of data["results"] the API may send: a complete item, and one
\* that lacks the rating.
ApiItem(tag) ==
    [id |-> Text(tag, <<>>), name |-> Text(tag, <<>>),
     description |-> Text(tag, <<>>), image_url |-> Text(tag, <<>>),
     rating |-> 45]
ApiItemNoRating(tag) ==
    [id |-> Text(tag, <<>>), name |-> Text(tag, <<>>),
     description |-> Text(tag, <<>>), image_url |-> Text(tag, <<>>)]
RawItems == {ApiItem("x1"), ApiItem("x2"), ApiItemNoRating("x3")}

ApiResults == UNION {[1..n -> RawItems] : n \in 0..MaxApiItems}

\* The texts an exception may carry.
ExcTexts == {"connect timeout", "token=s3cr3t"}

\* What the world does to one call of the handler.
HandlerBehaviours ==
    {[kind |-> "mock", results |-> <<>>, text |-> ""]}
    \cup {[kind |-> "api", results |-> r, text |-> ""] : r \in ApiResults}
    \cup {[kind |-> k, results |-> <<>>, text |-> t] :
              k \in {"http_error", "no_results_key"}, t \in ExcTexts}

\* ItemData.model_construct(**item): built without validation.
ItemDataUnchecked(item) == TRUE

\* ItemData(**item): every field of ItemData is required.
ItemDataValid(item) == ItemFields \subseteq DOMAIN item

NoExc == [type |-> "", base |-> "", text |-> ""]
Returned(items) == [called |-> TRUE, raised |-> FALSE, exc |-> NoExc, items |-> items]
Raised(type, base, text) ==
    [called |-> TRUE, raised |-> TRUE,
     exc |-> [type |-> type, base |-> base, text |-> text], items |-> <<>>]
NoOutcome == [called |-> FALSE, raised |-> FALSE, exc |-> NoExc, items |-> <<>>]

\* _fetch_from_api(query, limit): the list of ItemData it returns, or the
\* exception it raises (base: the class an except clause matches it by).
FetchFromApi(b, query, limit) ==
    CASE b.kind = "mock" -> Returned(MockItems(query, limit))
      [] b.kind = "http_error" -> Raised("httpx.HTTPStatusError", "httpx.HTTPError", b.text)
      [] b.kind = "no_results_key" -> Raised("KeyError", "Exception", b.text)
      [] OTHER ->
            IF \A k \in DOMAIN b.results : ItemDataValid(b.results[k])
            THEN Returned(b.results)
            ELSE Raised("pydantic.ValidationError", "Exception", "rating: Field required")

(***************************************************************************)
(* The dispatcher: _call_tool_request.                                     *)
(***************************************************************************)
NoContent == [present |-> FALSE]
NoMeta == [present |-> FALSE]
NoResult ==
    [returned |-> FALSE, isError |-> FALSE, content |-> <<>>,
     structuredContent |-> NoContent, meta |-> NoMeta]

\* The error result without isError=True (CallToolResult defaults it to False).
ErrorResultNotFlagged(text) ==
    [returned |-> TRUE, isError |-> FALSE,
     content |-> <<[type |-> "text", text |-> text]>>,
     structuredContent |-> NoContent, meta |-> NoMeta]

\* CallToolResult(content=[TextContent(type="text", text=...)], isError=True)
ErrorResult(text) ==
    [returned |-> TRUE, isError |-> TRUE,
     content |-> <<[type |-> "text", text |-> text]>>,
     structuredContent |-> NoContent, meta |-> NoMeta]

\* lines 499-504
UnknownToolResult(name) == ErrorResult(Text("Unknown tool: {}", <<name>>))

\* lines 511-516
ValidationErrorResult(errors) == ErrorResult(Text("Validation error: {}", <<errors>>))

\* Only the first except clause: anything but an httpx.HTTPError goes on to
\* the caller and no result is returned.
ExceptionResultHttpOnly(exc) ==
    IF exc.base = "httpx.HTTPError"
    THEN [returned |-> TRUE, isError |-> TRUE,
          content |-> <<[type |-> "text", text |-> [fmt |-> "API error: {}", args |-> <<exc.text>>]]>>,
          structuredContent |-> NoContent, meta |-> NoMeta]
    ELSE NoResult

\* A last clause `except BaseException`: every exception becomes a result.
ExceptionResultCatchAll(exc) ==
    IF exc.base = "httpx.HTTPError"
    THEN [returned |-> TRUE, isError |-> TRUE,
          content |-> <<[type |-> "text", text |-> [fmt |-> "API error: {}", args |-> <<exc.text>>]]>>,
          structuredContent |-> NoContent, meta |-> NoMeta]
    ELSE [returned |-> TRUE, isError |-> TRUE,
          content |-> <<[type |-> "text", text |-> [fmt |-> "Error: {}", args |-> <<exc.text>>]]>>,
          structuredContent |-> NoContent, meta |-> NoMeta]

\* lines 547-560: the two except clauses, or the exception going on to the caller
ExceptionResult(exc) ==
    IF exc.base = "httpx.HTTPError" THEN ErrorResult(Text("API error: {}", <<exc.text>>))
    ELSE IF exc.base = "Exception" THEN ErrorResult(Text("Error: {}", <<exc.text>>))
    ELSE NoResult

\* lines 523-530
StructuredData(items, query, timestamp) ==
    [present |-> TRUE,
     items |-> items,
     total_count |-> Len(items),
     metadata |-> [query |-> query, timestamp |-> timestamp]]

\* lines 532-545
SuccessResult(widget, items, query, timestamp) ==
    [returned |-> TRUE, isError |-> FALSE,
     content |-> <<[type |-> "text",
                    text |-> Text("Found {} items for '{}'", <<Len(items), query>>)]>>,
     structuredContent |-> StructuredData(items, query, timestamp),
     meta |-> [present |-> TRUE, map |-> ToolInvocationMeta(widget)]]

\* datetime.now().isoformat()
Timestamps == {"2025-01-01T00:00:00", "2025-01-01T00:00:01"}

\* A request's arguments: None, or a map (req.params.arguments or {}).
Arguments(isNone, map) == [isNone |-> isNone, map |-> map]
ArgumentsOrEmpty(a) == IF a.isNone THEN <<>> ELSE a.map

\* What a caller may send as arguments.
RequestArguments ==
    {Arguments(FALSE, m) : m \in ArgMaps} \cup {Arguments(TRUE, <<>>)}

NoRequest == [name |-> "", arguments |-> Arguments(TRUE, <<>>)]

InitDispatcher ==
    /\ pc = "idle"
    /\ req = NoRequest
    /\ payload = NoPayload
    /\ fetchCalls = 0
    /\ outcome = NoOutcome
    /\ result = NoResult

\* lines 497-520: a request arrives; the tool is looked up, the arguments are
\* validated, and the handler is called (the coroutine then waits).
CallToolStart(name, a) ==
    /\ pc \in {"idle", "done"}
    /\ req' = [name |-> name, arguments |-> a]
    /\ outcome' = NoOutcome
    /\ LET w == LookupWidget(name)
           v == ModelValidate(ArgumentsOrEmpty(a))
       IN IF ~w.found
          THEN /\ result' = UnknownToolResult(name)
               /\ payload' = NoPayload
               /\ fetchCalls' = 0
               /\ pc' = "done"
          ELSE IF v.errors # {}
          THEN /\ result' = ValidationErrorResult(v.errors)
               /\ payload' = NoPayload
               /\ fetchCalls' = 0
               /\ pc' = "done"
          ELSE /\ result' = NoResult
               /\ payload' = [valid |-> TRUE, query |-> v.query, limit |-> v.limit]
               /\ fetchCalls' = 1
               /\ pc' = "awaiting"
    /\ UNCHANGED notDispatcherVars

\* lines 520-560: the handler returns or raises, and the result is built.
CallToolFinish(b, timestamp) ==
    /\ pc = "awaiting"
    /\ LET f == FetchFromApi(b, payload.query, payload.limit)
           w == LookupWidget(req.name).widget
       IN /\ outcome' = f
          /\ result' = IF f.raised THEN ExceptionResult(f.exc)
                       ELSE SuccessResult(w, f.items, payload.query, timestamp)
    /\ pc' = "done"
    /\ UNCHANGED <<req, payload, fetchCalls>>
    /\ UNCHANGED notDispatcherVars

NextDispatcher ==
    \/ \E name \in RequestNames, a \in RequestArguments : CallToolStart(name, a)
    \/ \E b \in HandlerBehaviours, ts \in Timestamps : CallToolFinish(b, ts)

(***************************************************************************)
(* The widgets and the Widget State Store.  The widgets are the template   *)
(* App of src/PROMPT.md, KitchenSinkLite and DeliveryQuickApp; the hook    *)
(* useWidgetState they call (../use-widget-state) is modelled from         *)
(* section 4.4 of the specification: read() and write().                   *)
(***************************************************************************)
\* At most this many units of one product are put in the cart.
MaxQuantity == 2
\* At most this many writes are made before the component renders again.
MaxUnrendered == 2
\* At most this many events are logged after a mount by the handlers that
\* change other state; handleOpenExternal, which only logs, goes on until the
\* log has taken in this many entries more than it keeps.
MaxEvents == 3
MaxOverflow == 1

Apps == {"my-widget", "kitchen-sink-lite", "delivery-quick"}

\* {} : the document without fields
EmptyDocument == [f \in {} |-> TRUE]
\* The host holds nothing for the instance.
NoDocument == [present |-> FALSE, doc |-> EmptyDocument]
Held(d) == [present |-> TRUE, doc |-> d]

\* null and undefined of the widget code
Null == "null"
Undefined == "undefined"

\* {...prev, k: v, ...}: the fields of prev, those of fields replacing or joining them
Spread(prev, fields) ==
    [f \in DOMAIN prev \cup DOMAIN fields |->
        IF f \in DOMAIN fields THEN fields[f] ELSE prev[f]]

\* prev => ({ k: v }): the updater forgets the spread
SpreadNothing(prev, fields) == fields

\* The inputs of the widgets.
Products == {"p1", "p2"}
ItemIds == {"item-1", "item-2"}
Notes == {"", "buy milk"}
SaveTimes == {"2025-01-01T00:00:05", "2025-01-01T00:00:06"}
MountTime == "2025-01-01T00:00:00"
ToolOutputs == {Null, "output-1"}
\* The tool outputs of DeliveryQuickApp: those of two invocations, the later
\* one without the product p2.
QuickToolOutputs == {"output-1", "output-2"}
Categories == {"c1"}
\* toolOutput?.products || []: the ids of the products of a tool output
ProductsOf(o) ==
    CASE o = "output-1" -> {"p1", "p2"}
      [] o = "output-2" -> {"p1"}
      [] OTHER -> {}
\* The inputs of DeliveryRestaurantsApp: two of its four sort keys.
SortKeys == {"rating", "name"}
Restaurants == {"r1"}
DisplayModes == {"inline", "fullscreen"}

\* useWidgetState<WidgetState>({}) of the template App
MyWidgetDefault == EmptyDocument

\* useWidgetState<DemoWidgetState>({note, highlight, savedAt}) of KitchenSinkLite
KitchenDefault ==
    [note |-> "Tap save to persist widget state on the host.",
     highlight |-> FALSE, savedAt |-> MountTime]

\* The default of DeliveryQuickApp given as the empty document
QuickDefaultEmpty == EmptyDocument

\* useWidgetState<QuickWidgetState>({cart: [], favorites: [], viewMode: "browse"})
QuickDefault == [cart |-> <<>>, favorites |-> <<>>, viewMode |-> "browse"]

\* useWidgetState<RestaurantsWidgetState>({favorites: [], sortBy: "rating",
\* sortOrder: "desc"}) of DeliveryRestaurantsApp
RestaurantsDefault == [favorites |-> <<>>, sortBy |-> "rating", sortOrder |-> "desc"]

DefaultOf(a) ==
    CASE a = "my-widget" -> MyWidgetDefault
      [] a = "kitchen-sink-lite" -> KitchenDefault
      [] a = "delivery-quick" -> QuickDefault
      [] a = "delivery-restaurants" -> RestaurantsDefault

\* prev?.cart || []
CartOf(prev) == IF "cart" \in DOMAIN prev THEN prev.cart ELSE <<>>
\* widgetState?.favorites || []
FavoritesOf(h) ==
    IF h.present /\ "favorites" \in DOMAIN h.doc THEN h.doc.favorites ELSE <<>>

\* currentCart.find(item => item.product_id === productId) finds an item
InCart(currentCart, productId) ==
    \E i \in DOMAIN currentCart : currentCart[i].product_id = productId
\* the item it finds: the first one
FoundItem(currentCart, productId) ==
    currentCart[CHOOSE i \in DOMAIN currentCart :
                    /\ currentCart[i].product_id = productId
                    /\ \A j \in 1..(i - 1) : currentCart[j].product_id # productId]

\* currentCart.map(item => item.product_id === productId
\*                 ? {...item, quantity: item.quantity + delta} : item)
MapQuantity(currentCart, productId, delta) ==
    [i \in DOMAIN currentCart |->
        IF currentCart[i].product_id = productId
        THEN [currentCart[i] EXCEPT !.quantity = @ + delta]
        ELSE currentCart[i]]

\* currentCart.filter(item => item.product_id !== productId)
RECURSIVE FilterOut(_, _)
FilterOut(currentCart, productId) ==
    IF currentCart = <<>> THEN <<>>
    ELSE IF Head(currentCart).product_id = productId
         THEN FilterOut(Tail(currentCart), productId)
         ELSE <<Head(currentCart)>> \o FilterOut(Tail(currentCart), productId)

\* handleAddToCart without the search for an existing item: it always appends
AddToCartUpdaterAlwaysAppend(prev, productId) ==
    Spread(prev, [cart |-> Append(CartOf(prev),
                               [product_id |-> productId, quantity |-> 1])])

\* The updater of handleAddToCart
AddToCartUpdater(prev, productId) ==
    LET currentCart == CartOf(prev)
    IN IF InCart(currentCart, productId)
       THEN Spread(prev, [cart |-> MapQuantity(currentCart, productId, 1)])
       ELSE Spread(prev, [cart |-> Append(currentCart,
                                      [product_id |-> productId, quantity |-> 1])])

\* handleRemoveFromCart without the branch for quantity 1: the item stays in
\* the cart with quantity 0
RemoveFromCartUpdaterKeepingZero(prev, productId) ==
    LET currentCart == CartOf(prev)
    IN IF ~InCart(currentCart, productId) THEN prev
       ELSE Spread(prev, [cart |-> MapQuantity(currentCart, productId, -1)])

\* The updater of handleRemoveFromCart
RemoveFromCartUpdater(prev, productId) ==
    LET currentCart == CartOf(prev)
    IN IF ~InCart(currentCart, productId) THEN prev
       ELSE IF FoundItem(currentCart, productId).quantity = 1
            THEN Spread(prev, [cart |-> FilterOut(currentCart, productId)])
            ELSE Spread(prev, [cart |-> MapQuantity(currentCart, productId, -1)])

\* The updater of handleRemoveAllFromCart
RemoveAllFromCartUpdater(prev, productId) ==
    Spread(prev, [cart |-> FilterOut(CartOf(prev), productId)])

\* favorites.includes(productId) ? favorites.filter(id => id !== productId)
\*                               : [...favorites, productId]
NewFavorites(favorites, productId) ==
    IF \E i \in DOMAIN favorites : favorites[i] = productId
    THEN SelectSeq(favorites, LAMBDA id : id # productId)
    ELSE Append(favorites, productId)

\* The updater of handleToggleFavorite: prev => ({...prev, favorites: newFavorites})
FavoritesUpdater(prev, newFavorites) == Spread(prev, [favorites |-> newFavorites])

\* The updater of handleCategoryClick: prev => ({...prev, selectedCategory:
\*     prev?.selectedCategory === categoryId ? undefined : categoryId})
CategoryUpdater(prev, categoryId) ==
    Spread(prev, [selectedCategory |->
        IF "selectedCategory" \in DOMAIN prev /\ prev.selectedCategory = categoryId
        THEN Undefined ELSE categoryId])

\* handleSort: newSortOrder, from the widgetState h of the render
NewSortOrder(h, sortBy) ==
    IF /\ h.present
       /\ "sortBy" \in DOMAIN h.doc /\ h.doc.sortBy = sortBy
       /\ "sortOrder" \in DOMAIN h.doc /\ h.doc.sortOrder = "desc"
    THEN "asc" ELSE "desc"

\* The updater of handleSort: prev => ({...prev, sortBy, sortOrder: newSortOrder})
SortUpdater(prev, sortBy, newSortOrder) ==
    Spread(prev, [sortBy |-> sortBy, sortOrder |-> newSortOrder])

\* The updater of handleRestaurantClick:
\* prev => ({...prev, selectedRestaurant: restaurantId})
SelectedRestaurantUpdater(prev, restaurantId) ==
    Spread(prev, [selectedRestaurant |-> restaurantId])

\* The view-mode updater without the spread
ViewModeUpdaterNoSpread(prev, mode) == SpreadNothing(prev, [viewMode |-> mode])

\* The updater of handleViewCart and handleBackToBrowse:
\* prev => ({...prev, viewMode: mode})
ViewModeUpdater(prev, mode) == Spread(prev, [viewMode |-> mode])

\* The updater of handleSaveWidgetState and of the highlight checkbox:
\* prev => ({...prev, note, highlight, savedAt})
SaveUpdater(prev, note, highlight, savedAt) ==
    Spread(prev, [note |-> note, highlight |-> highlight, savedAt |-> savedAt])

\* An updater function as a value: which updater, with what it closes over.
Updater(op, arg) == [op |-> op, arg |-> arg]
NoUpdater == [op |-> "none", arg |-> <<>>]

\* updater(prev)
ApplyUpdater(u, prev) ==
    CASE u.op = "addToCart" -> AddToCartUpdater(prev, u.arg)
      [] u.op = "removeFromCart" -> RemoveFromCartUpdater(prev, u.arg)
      [] u.op = "removeAllFromCart" -> RemoveAllFromCartUpdater(prev, u.arg)
      [] u.op = "favorites" -> FavoritesUpdater(prev, u.arg)
      [] u.op = "viewMode" -> ViewModeUpdater(prev, u.arg)
      [] u.op = "category" -> CategoryUpdater(prev, u.arg)
      [] u.op = "sort" -> SortUpdater(prev, u.arg.sortBy, u.arg.sortOrder)
      [] u.op = "selectedRestaurant" -> SelectedRestaurantUpdater(prev, u.arg)
      [] u.op = "save" -> SaveUpdater(prev, u.arg.note, u.arg.highlight, u.arg.savedAt)

\* What write() is given: a document or an updater.
DocumentWrite(d) == [kind |-> "document", doc |-> d, updater |-> NoUpdater]
UpdaterWrite(u) == [kind |-> "updater", doc |-> EmptyDocument, updater |-> u]

\* read(): whatever the host holds for the instance
Read(h) == h

\* write() applied by halves: only the fields the current document lacks
\* are taken from the new one.
WriteResultKeepingOld(h, default, w) ==
    LET new == IF w.kind = "document" THEN w.doc
               ELSE ApplyUpdater(w.updater, IF h.present THEN h.doc ELSE default)
    IN IF h.present THEN Spread(new, h.doc) ELSE new

\* write(newDocumentOrUpdater): a document replaces the current one wholesale;
\* an updater is applied to the current document, or to the type's default
\* when the host holds none.  The document written.
WriteResult(h, default, w) ==
    IF w.kind = "document" THEN w.doc
    ELSE ApplyUpdater(w.updater, IF h.present THEN h.doc ELSE default)

\* The handler or host event of a step, with the id or document it was given.
Op(name, id, doc) == [op |-> name, id |-> id, doc |-> doc]

\* [widgetState?.note, widgetState?.highlight]: what the effect of
\* KitchenSinkLite depends on.
NoteDeps(h) ==
    IF h.present /\ "note" \in DOMAIN h.doc /\ "highlight" \in DOMAIN h.doc
    THEN [has |-> TRUE, note |-> h.doc.note, highlight |-> h.doc.highlight]
    ELSE [has |-> FALSE, note |-> "", highlight |-> FALSE]

\* next.slice(0, 12)
EventLogCap == 12

\* The events logged since the component mounted.  An entry of the log is
\* the time of its logEvent call, counted in calls; its text is left out.
Logged == IF events = <<>> THEN 0 ELSE Head(events)

\* The updater of logEvent without the slice
LogEventUncut(prev, entry) == <<entry>> \o prev

\* The updater of logEvent: prev => [entry, ...prev].slice(0, 12)
LogEventUpdater(prev, entry) ==
    SubSeq(<<entry>> \o prev, 1, Min(Len(prev) + 1, EventLogCap))

\* logEvent(text), called by a handler that changes other state as well
LogEvent ==
    /\ Logged < MaxEvents
    /\ events' = LogEventUpdater(events, Logged + 1)

\* The text of the arguments field: a sequence of characters, "m" standing
\* for a member "message": "hi".  useState('{"message": "Hello from any tool"}')
DefaultArgs == <<"{", "m", "}">>
\* The texts typed into the arguments field.
ArgsTexts ==
    {<<>>, <<" ", " ">>, <<"{", "m", "}">>, <<" ", "{", " ", "}">>, <<"{", "m">>}

\* String.prototype.trim(): the text without its leading and trailing whitespace
RECURSIVE TrimStart(_)
TrimStart(text) ==
    IF text # <<>> /\ Head(text) = " " THEN TrimStart(Tail(text)) ELSE text
RECURSIVE TrimEnd(_)
TrimEnd(text) ==
    IF text # <<>> /\ text[Len(text)] = " "
    THEN TrimEnd(SubSeq(text, 1, Len(text) - 1)) ELSE text
Trim(text) == TrimEnd(TrimStart(text))

\* JSON.parse(text): whitespace between tokens is skipped; of the texts over
\* these characters the objects {} and {m} are JSON, every other text makes
\* it throw a SyntaxError.
JsonParse(text) ==
    LET tokens == SelectSeq(text, LAMBDA c : c # " ")
    IN IF tokens = <<"{", "}">> THEN [ok |-> TRUE, value |-> EmptyDocument]
       ELSE IF tokens = <<"{", "m", "}">>
            THEN [ok |-> TRUE, value |-> [message |-> "hi"]]
            ELSE [ok |-> FALSE, value |-> EmptyDocument]
NoCall == [made |-> FALSE, arguments |-> EmptyDocument]

InitWidget ==
    /\ app = "none"
    /\ mounted = FALSE
    /\ hostState = NoDocument
    /\ rendered = NoDocument
    /\ noteDraft = ""
    /\ highlightDraft = FALSE
    /\ toolOutput = Null
    /\ isCalling = FALSE
    /\ callResult = Null
    /\ callError = Null
    /\ displayModeResult = ""
    /\ lastOp = Op("init", "", EmptyDocument)
    /\ written = NoDocument
    /\ unrendered = 0
    /\ events = <<>>
    /\ anyToolArgs = DefaultArgs
    /\ anyToolResult = Null
    /\ anyToolError = Null
    /\ anyToolLoading = FALSE
    /\ anyToolCall = NoCall

\* setWidgetState(w): the host comes to hold the document write() produces.
SetWidgetState(w) ==
    /\ hostState' = Held(WriteResult(hostState, DefaultOf(app), w))
    /\ written' = Held(IF w.kind = "document" THEN w.doc
                       ELSE ApplyUpdater(w.updater,
                                IF hostState.present THEN hostState.doc
                                ELSE DefaultOf(app)))
    /\ unrendered < MaxUnrendered
    /\ unrendered' = unrendered + 1

\* The host mounts the widget: the component's first render reads the state.
Mount(a) ==
    /\ ~mounted
    /\ app \in {"none", a}
    /\ app' = a
    /\ mounted' = TRUE
    /\ rendered' = Read(hostState)
    /\ noteDraft' = NoteDeps(rendered').note
    /\ highlightDraft' = NoteDeps(rendered').highlight
    /\ isCalling' = FALSE
    /\ callResult' = Null
    /\ callError' = Null
    /\ displayModeResult' = ""
    /\ lastOp' = Op("mount", "", EmptyDocument)
    /\ UNCHANGED <<hostState, toolOutput>>
    /\ unrendered' = 0
    /\ UNCHANGED written
    /\ events' = <<>>
    /\ anyToolArgs' = DefaultArgs
    /\ anyToolResult' = Null
    /\ anyToolError' = Null
    /\ anyToolLoading' = FALSE
    /\ anyToolCall' = NoCall
    /\ UNCHANGED notWidgetVars

\* The host unmounts the widget: the component's local state is gone, the
\* host keeps the widget state.
Unmount ==
    /\ mounted
    /\ mounted' = FALSE
    /\ rendered' = NoDocument
    /\ noteDraft' = ""
    /\ highlightDraft' = FALSE
    /\ isCalling' = FALSE
    /\ callResult' = Null
    /\ callError' = Null
    /\ displayModeResult' = ""
    /\ lastOp' = Op("unmount", "", EmptyDocument)
    /\ UNCHANGED <<app, hostState, toolOutput>>
    /\ unrendered' = 0
    /\ UNCHANGED written
    /\ events' = <<>>
    /\ anyToolArgs' = DefaultArgs
    /\ anyToolResult' = Null
    /\ anyToolError' = Null
    /\ anyToolLoading' = FALSE
    /\ anyToolCall' = NoCall
    /\ UNCHANGED notWidgetVars

\* The component renders again with the current widget state; in
\* KitchenSinkLite the effect copies note and highlight into the drafts when
\* either changed.
Render ==
    /\ mounted
    /\ rendered # Read(hostState)
    /\ rendered' = Read(hostState)
    /\ IF app = "kitchen-sink-lite" /\ NoteDeps(rendered') # NoteDeps(rendered)
       THEN /\ noteDraft' = NoteDeps(rendered').note
            /\ highlightDraft' = NoteDeps(rendered').highlight
       ELSE UNCHANGED <<noteDraft, highlightDraft>>
    /\ lastOp' = Op("render", "", EmptyDocument)
    /\ UNCHANGED <<app, mounted, hostState, toolOutput, isCalling, callResult,
                   callError, displayModeResult>>
    /\ unrendered' = 0
    /\ UNCHANGED written
    /\ UNCHANGED <<events, anyToolVars>>
    /\ UNCHANGED notWidgetVars

\* The host replaces window.openai.toolOutput with a new tool output.
ToolOutputArrives(o) ==
    /\ mounted
    /\ o # toolOutput
    /\ toolOutput' = o
    /\ lastOp' = Op("toolOutput", "", EmptyDocument)
    /\ UNCHANGED <<app, mounted, hostState, rendered, noteDraft, highlightDraft,
                   isCalling, callResult, callError, displayModeResult>>
    /\ UNCHANGED <<written, unrendered>>
    /\ UNCHANGED <<events, anyToolVars>>
    /\ UNCHANGED notWidgetVars

\* The template App: onClick={() => setWidgetState({ selectedId: item.id })}
SelectItem(id) ==
    /\ mounted /\ app = "my-widget"
    /\ toolOutput # Null
    /\ SetWidgetState(DocumentWrite([selectedId |-> id]))
    /\ lastOp' = Op("selectItem", id, [selectedId |-> id])
    /\ UNCHANGED <<app, mounted, rendered, noteDraft, highlightDraft, toolOutput,
                   isCalling, callResult, callError, displayModeResult>>
    /\ UNCHANGED <<events, anyToolVars>>
    /\ UNCHANGED notWidgetVars

\* KitchenSinkLite: the Textarea's onChange
SetNoteDraft(note) ==
    /\ mounted /\ app = "kitchen-sink-lite"
    /\ note # noteDraft
    /\ noteDraft' = note
    /\ lastOp' = Op("setNoteDraft", "", EmptyDocument)
    /\ UNCHANGED <<app, mounted, hostState, rendered, highlightDraft, toolOutput,
                   isCalling, callResult, callError, displayModeResult>>
    /\ UNCHANGED <<written, unrendered>>
    /\ UNCHANGED <<events, anyToolVars>>
    /\ UNCHANGED notWidgetVars

\* KitchenSinkLite: the Checkbox's onCheckedChange
HighlightToggle(now) ==
    /\ mounted /\ app = "kitchen-sink-lite"
    /\ LET nextValue == ~highlightDraft
       IN /\ highlightDraft' = nextValue
          /\ SetWidgetState(UpdaterWrite(Updater("save",
                 [note |-> noteDraft, highlight |-> nextValue, savedAt |-> now])))
    /\ lastOp' = Op("highlightToggle", "", EmptyDocument)
    /\ UNCHANGED <<app, mounted, rendered, noteDraft, toolOutput,
                   isCalling, callResult, callError, displayModeResult>>
    /\ LogEvent
    /\ UNCHANGED anyToolVars
    /\ UNCHANGED notWidgetVars

\* KitchenSinkLite.handleSaveWidgetState
HandleSaveWidgetState(now) ==
    /\ mounted /\ app = "kitchen-sink-lite"
    /\ SetWidgetState(UpdaterWrite(Updater("save",
           [note |-> noteDraft, highlight |-> highlightDraft, savedAt |-> now])))
    /\ lastOp' = Op("handleSaveWidgetState", "", EmptyDocument)
    /\ UNCHANGED <<app, mounted, rendered, noteDraft, highlightDraft, toolOutput,
                   isCalling, callResult, callError, displayModeResult>>
    /\ LogEvent
    /\ UNCHANGED anyToolVars
    /\ UNCHANGED notWidgetVars

\* The drafts taken from the last render instead of from the host
RefreshedDraftsFromRender(h, r) ==
    IF r.present
    THEN [note |-> NoteDeps(r).note, highlight |-> NoteDeps(r).highlight]
    ELSE [note |-> noteDraft, highlight |-> highlightDraft]

\* handleRefreshWidgetStateView: the drafts it sets from
\* window.openai.widgetState (h), when the host holds a document.
RefreshedDrafts(h, r) ==
    IF h.present
    THEN [note |-> NoteDeps(h).note, highlight |-> NoteDeps(h).highlight]
    ELSE [note |-> noteDraft, highlight |-> highlightDraft]

\* KitchenSinkLite.handleRefreshWidgetStateView
HandleRefreshWidgetStateView ==
    /\ mounted /\ app = "kitchen-sink-lite"
    /\ noteDraft' = RefreshedDrafts(Read(hostState), rendered).note
    /\ highlightDraft' = RefreshedDrafts(Read(hostState), rendered).highlight
    /\ lastOp' = Op("handleRefreshWidgetStateView", "", EmptyDocument)
    /\ UNCHANGED <<app, mounted, hostState, rendered, toolOutput,
                   isCalling, callResult, callError, displayModeResult>>
    /\ UNCHANGED <<written, unrendered>>
    /\ LogEvent
    /\ UNCHANGED anyToolVars
    /\ UNCHANGED notWidgetVars

\* KitchenSinkLite.handleCallTool up to the await of callTool
HandleCallTool(available) ==
    /\ mounted /\ app = "kitchen-sink-lite"
    /\ ~isCalling
    /\ IF ~available
       THEN /\ callError' = "callTool is not available in this context."
            /\ UNCHANGED <<isCalling, callResult>>
            /\ LogEvent
       ELSE /\ isCalling' = TRUE
            /\ callError' = Null
            /\ callResult' = Null
            /\ UNCHANGED events
    /\ lastOp' = Op("handleCallTool", IF available THEN "available" ELSE "unavailable",
                     EmptyDocument)
    /\ UNCHANGED <<app, mounted, hostState, rendered, noteDraft, highlightDraft,
                   toolOutput, displayModeResult>>
    /\ UNCHANGED <<written, unrendered>>
    /\ UNCHANGED anyToolVars
    /\ UNCHANGED notWidgetVars

\* A settlement that also drops the widget state the host holds
CallToolSettlesDroppingState(resolved_) ==
    /\ mounted /\ app = "kitchen-sink-lite"
    /\ isCalling
    /\ IF resolved_
       THEN callResult' = "{\"ok\": true}" /\ UNCHANGED callError
       ELSE callError' = "Failed to call tool" /\ UNCHANGED callResult
    /\ isCalling' = FALSE
    /\ hostState' = NoDocument
    /\ lastOp' = Op("callToolSettles", IF resolved_ THEN "resolved" ELSE "rejected",
                     EmptyDocument)
    /\ UNCHANGED <<app, mounted, rendered, noteDraft, highlightDraft,
                   toolOutput, displayModeResult>>
    /\ UNCHANGED <<written, unrendered>>
    /\ LogEvent
    /\ UNCHANGED anyToolVars
    /\ UNCHANGED notWidgetVars

\* handleCallTool with setIsCalling(false) at the end of the try block
\* instead of in finally
CallToolSettlesWithoutFinally(resolved_) ==
    /\ mounted /\ app = "kitchen-sink-lite"
    /\ isCalling
    /\ IF resolved_
       THEN callResult' = "{\"ok\": true}" /\ UNCHANGED callError
       ELSE callError' = "Failed to call tool" /\ UNCHANGED callResult
    /\ isCalling' = ~resolved_
    /\ lastOp' = Op("callToolSettles", IF resolved_ THEN "resolved" ELSE "rejected",
                     EmptyDocument)
    /\ UNCHANGED <<app, mounted, hostState, rendered, noteDraft, highlightDraft,
                   toolOutput, displayModeResult>>
    /\ UNCHANGED <<written, unrendered>>
    /\ LogEvent
    /\ UNCHANGED anyToolVars
    /\ UNCHANGED notWidgetVars

\* handleCallTool after the await: the call resolved or rejected
CallToolSettles(resolved_) ==
    /\ mounted /\ app = "kitchen-sink-lite"
    /\ isCalling
    /\ IF resolved_
       THEN callResult' = "{\"ok\": true}" /\ UNCHANGED callError
       ELSE callError' = "Failed to call tool" /\ UNCHANGED callResult
    /\ isCalling' = FALSE
    /\ lastOp' = Op("callToolSettles", IF resolved_ THEN "resolved" ELSE "rejected",
                     EmptyDocument)
    /\ UNCHANGED <<app, mounted, hostState, rendered, noteDraft, highlightDraft,
                   toolOutput, displayModeResult>>
    /\ UNCHANGED <<written, unrendered>>
    /\ LogEvent
    /\ UNCHANGED anyToolVars
    /\ UNCHANGED notWidgetVars

\* KitchenSinkLite.handleRequestDisplayMode
HandleRequestDisplayMode(mode, available, granted) ==
    /\ mounted /\ app = "kitchen-sink-lite"
    /\ displayModeResult' = IF available THEN granted ELSE "inline"
    /\ lastOp' = Op("handleRequestDisplayMode", "", EmptyDocument)
    /\ UNCHANGED <<app, mounted, hostState, rendered, noteDraft, highlightDraft,
                   toolOutput, isCalling, callResult, callError>>
    /\ UNCHANGED <<written, unrendered>>
    /\ LogEvent
    /\ UNCHANGED anyToolVars
    /\ UNCHANGED notWidgetVars

\* KitchenSinkLite.handleSendFollowUp
HandleSendFollowUp(available) ==
    /\ mounted /\ app = "kitchen-sink-lite"
    /\ callError' = IF available THEN callError
                    ELSE "sendFollowUpMessage is not available in this context."
    /\ lastOp' = Op("handleSendFollowUp", "", EmptyDocument)
    /\ UNCHANGED <<app, mounted, hostState, rendered, noteDraft, highlightDraft,
                   toolOutput, isCalling, callResult, displayModeResult>>
    /\ UNCHANGED <<written, unrendered>>
    /\ LogEvent
    /\ UNCHANGED anyToolVars
    /\ UNCHANGED notWidgetVars

\* KitchenSinkLite.handleOpenExternal: openExternal changes nothing in the
\* widget; the handler logs.
HandleOpenExternal ==
    /\ mounted /\ app = "kitchen-sink-lite"
    /\ Logged < EventLogCap + MaxOverflow
    /\ events' = LogEventUpdater(events, Logged + 1)
    /\ lastOp' = Op("handleOpenExternal", "", EmptyDocument)
    /\ UNCHANGED <<app, mounted, hostState, rendered, noteDraft, highlightDraft,
                   toolOutput, isCalling, callResult, callError, displayModeResult>>
    /\ UNCHANGED <<written, unrendered>>
    /\ UNCHANGED anyToolVars
    /\ UNCHANGED notWidgetVars

\* KitchenSinkLite: the onChange of the arguments textarea
SetAnyToolArgs(text) ==
    /\ mounted /\ app = "kitchen-sink-lite"
    /\ text # anyToolArgs
    /\ anyToolArgs' = text
    /\ lastOp' = Op("setAnyToolArgs", "", EmptyDocument)
    /\ UNCHANGED <<app, mounted, hostState, rendered, noteDraft, highlightDraft,
                   toolOutput, isCalling, callResult, callError, displayModeResult>>
    /\ UNCHANGED <<written, unrendered, events>>
    /\ UNCHANGED <<anyToolResult, anyToolError, anyToolLoading, anyToolCall>>
    /\ UNCHANGED notWidgetVars

\* handleCallAnyTool with a parse that accepts every text as the empty map
ParsedArgsLenient(text) == [ok |-> TRUE, value |-> EmptyDocument]

\* anyToolArgs.trim().length === 0 ? {} : JSON.parse(anyToolArgs)
ParsedArgs(text) ==
    IF Len(Trim(text)) = 0 THEN [ok |-> TRUE, value |-> EmptyDocument]
    ELSE JsonParse(text)

\* KitchenSinkLite.handleCallAnyTool up to the await of callTool, or to the
\* end when callTool is missing or JSON.parse throws
HandleCallAnyTool(available) ==
    /\ mounted /\ app = "kitchen-sink-lite"
    /\ ~anyToolLoading
    /\ IF ~available
       THEN /\ anyToolError' = "callTool is not available in this context."
            /\ UNCHANGED <<anyToolResult, anyToolLoading, anyToolCall>>
            /\ LogEvent
       ELSE IF ParsedArgs(anyToolArgs).ok
            THEN /\ anyToolLoading' = TRUE
                 /\ anyToolError' = Null
                 /\ anyToolResult' = Null
                 /\ anyToolCall' = [made |-> TRUE,
                                    arguments |-> ParsedArgs(anyToolArgs).value]
                 /\ UNCHANGED events
            ELSE /\ anyToolLoading' = FALSE
                 /\ anyToolError' = "Unexpected token in JSON"
                 /\ anyToolResult' = Null
                 /\ UNCHANGED anyToolCall
                 /\ LogEvent
    /\ lastOp' = Op("handleCallAnyTool", IF available THEN "available" ELSE "unavailable",
                     EmptyDocument)
    /\ UNCHANGED <<app, mounted, hostState, rendered, noteDraft, highlightDraft,
                   toolOutput, isCalling, callResult, callError, displayModeResult>>
    /\ UNCHANGED <<written, unrendered, anyToolArgs>>
    /\ UNCHANGED notWidgetVars

\* handleCallAnyTool after the await: the call resolved or rejected
AnyToolSettles(resolved_) ==
    /\ mounted /\ app = "kitchen-sink-lite"
    /\ anyToolLoading
    /\ IF resolved_
       THEN anyToolResult' = "{\"ok\": true}" /\ UNCHANGED anyToolError
       ELSE anyToolError' = "Failed to call tool" /\ UNCHANGED anyToolResult
    /\ anyToolLoading' = FALSE
    /\ anyToolCall' = NoCall
    /\ LogEvent
    /\ lastOp' = Op("anyToolSettles", IF resolved_ THEN "resolved" ELSE "rejected",
                     EmptyDocument)
    /\ UNCHANGED <<app, mounted, hostState, rendered, noteDraft, highlightDraft,
                   toolOutput, isCalling, callResult, callError, displayModeResult>>
    /\ UNCHANGED <<written, unrendered, anyToolArgs>>
    /\ UNCHANGED notWidgetVars

\* The quantity of a product in the cart the host holds
QuantityInCart(h, productId) ==
    IF h.present /\ InCart(CartOf(h.doc), productId)
    THEN FoundItem(CartOf(h.doc), productId).quantity
    ELSE 0

\* A handler of DeliveryQuickApp that writes with an updater and does nothing else
QuickWrite(name, id, u) ==
    /\ mounted /\ app = "delivery-quick"
    /\ SetWidgetState(UpdaterWrite(u))
    /\ lastOp' = Op(name, id, EmptyDocument)
    /\ UNCHANGED <<app, mounted, rendered, noteDraft, highlightDraft, toolOutput,
                   isCalling, callResult, callError, displayModeResult>>
    /\ UNCHANGED <<events, anyToolVars>>
    /\ UNCHANGED notWidgetVars

\* The buttons of a product are rendered for the products of the tool output
\* (filteredProducts.map, cartProducts.map).
HasButtons(productId) == productId \in ProductsOf(toolOutput)

\* DeliveryQuickApp.handleAddToCart
HandleAddToCart(productId) ==
    /\ HasButtons(productId)
    /\ QuantityInCart(hostState, productId) < MaxQuantity
    /\ QuickWrite("handleAddToCart", "", Updater("addToCart", productId))

\* DeliveryQuickApp.handleRemoveFromCart
HandleRemoveFromCart(productId) ==
    /\ app = "delivery-quick"
    /\ HasButtons(productId)
    /\ QuickWrite("handleRemoveFromCart", "", Updater("removeFromCart", productId))

\* DeliveryQuickApp.handleRemoveAllFromCart
HandleRemoveAllFromCart(productId) ==
    /\ app = "delivery-quick"
    /\ HasButtons(productId)
    /\ QuickWrite("handleRemoveAllFromCart", "",
               Updater("removeAllFromCart", productId))

\* DeliveryQuickApp.handleToggleFavorite: newFavorites is computed from the
\* favorites of the last render.
HandleToggleFavorite(productId) ==
    /\ app = "delivery-quick"
    /\ HasButtons(productId)
    /\ QuickWrite("handleToggleFavorite", productId,
               Updater("favorites", NewFavorites(FavoritesOf(rendered), productId)))

\* DeliveryQuickApp.handleCategoryClick
HandleCategoryClick(categoryId) ==
    /\ app = "delivery-quick"
    /\ QuickWrite("handleCategoryClick", "", Updater("category", categoryId))

\* DeliveryQuickApp.handleViewCart
HandleViewCart ==
    /\ app = "delivery-quick"
    /\ QuickWrite("handleViewCart", "", Updater("viewMode", "cart"))

\* DeliveryQuickApp.handleBackToBrowse
HandleBackToBrowse ==
    /\ app = "delivery-quick"
    /\ QuickWrite("handleBackToBrowse", "", Updater("viewMode", "browse"))

\* DeliveryQuickApp.handleRequestFullscreen
HandleRequestFullscreen ==
    /\ mounted /\ app = "delivery-quick"
    /\ lastOp' = Op("handleRequestFullscreen", "", EmptyDocument)
    /\ UNCHANGED <<app, mounted, hostState, rendered, noteDraft, highlightDraft,
                   toolOutput, isCalling, callResult, callError, displayModeResult>>
    /\ UNCHANGED <<written, unrendered>>
    /\ UNCHANGED <<events, anyToolVars>>
    /\ UNCHANGED notWidgetVars

NextWidget ==
    \/ \E a \in Apps : Mount(a)
    \/ Unmount
    \/ Render
    \/ \E o \in ToolOutputs : ToolOutputArrives(o)
    \/ \E id \in ItemIds : SelectItem(id)
    \/ \E note \in Notes : SetNoteDraft(note)
    \/ \E now \in SaveTimes : HighlightToggle(now)
    \/ \E now \in SaveTimes : HandleSaveWidgetState(now)
    \/ HandleRefreshWidgetStateView
    \/ \E available \in BOOLEAN : HandleCallTool(available)
    \/ \E resolved_ \in BOOLEAN : CallToolSettles(resolved_)
    \/ \E mode \in DisplayModes, available \in BOOLEAN, granted \in DisplayModes :
          HandleRequestDisplayMode(mode, available, granted)
    \/ \E available \in BOOLEAN : HandleSendFollowUp(available)
    \/ \E productId \in Products : HandleAddToCart(productId)
    \/ \E productId \in Products : HandleRemoveFromCart(productId)
    \/ \E productId \in Products : HandleRemoveAllFromCart(productId)
    \/ \E productId \in Products : HandleToggleFavorite(productId)
    \/ HandleViewCart
    \/ HandleBackToBrowse
    \/ HandleRequestFullscreen

\* The host API cards of KitchenSinkLite that leave the widget state alone.
NextKitchen ==
    \/ Mount("kitchen-sink-lite")
    \/ Unmount
    \/ \E available \in BOOLEAN : HandleSendFollowUp(available)
    \/ \E available \in BOOLEAN : HandleCallTool(available)
    \/ \E resolved_ \in BOOLEAN : CallToolSettles(resolved_)
    \/ HandleOpenExternal
    \/ \E text \in ArgsTexts : SetAnyToolArgs(text)
    \/ \E available \in BOOLEAN : HandleCallAnyTool(available)
    \/ \E resolved_ \in BOOLEAN : AnyToolSettles(resolved_)

\* DeliveryQuickApp alone, with its category filter and the tool outputs of
\* two invocations.
NextQuick ==
    \/ Mount("delivery-quick")
    \/ Unmount
    \/ Render
    \/ \E o \in QuickToolOutputs : ToolOutputArrives(o)
    \/ \E productId \in Products : HandleAddToCart(productId)
    \/ \E productId \in Products : HandleRemoveFromCart(productId)
    \/ \E productId \in Products : HandleRemoveAllFromCart(productId)
    \/ \E productId \in Products : HandleToggleFavorite(productId)
    \/ \E categoryId \in Categories : HandleCategoryClick(categoryId)
    \/ HandleViewCart
    \/ HandleBackToBrowse

\* A handler of DeliveryRestaurantsApp that writes with an updater
RestaurantsWrite(name, id, u) ==
    /\ mounted /\ app = "delivery-restaurants"
    /\ SetWidgetState(UpdaterWrite(u))
    /\ lastOp' = Op(name, id, EmptyDocument)
    /\ UNCHANGED <<app, mounted, rendered, noteDraft, highlightDraft, toolOutput,
                   isCalling, callResult, callError, displayModeResult>>
    /\ UNCHANGED <<events, anyToolVars>>
    /\ UNCHANGED notWidgetVars

\* DeliveryRestaurantsApp.handleSort: newSortOrder is computed from the
\* widgetState of the last render.
HandleSort(sortBy) ==
    /\ app = "delivery-restaurants"
    /\ RestaurantsWrite("handleSort", sortBy,
           Updater("sort", [sortBy |-> sortBy,
                            sortOrder |-> NewSortOrder(rendered, sortBy)]))

\* DeliveryRestaurantsApp.handleToggleFavorite
HandleToggleFavoriteRestaurant(restaurantId) ==
    /\ app = "delivery-restaurants"
    /\ RestaurantsWrite("handleToggleFavorite", restaurantId,
           Updater("favorites", NewFavorites(FavoritesOf(rendered), restaurantId)))

\* DeliveryRestaurantsApp.handleRestaurantClick; the follow-up message it
\* sends changes nothing in the widget.
HandleRestaurantClick(restaurantId) ==
    /\ app = "delivery-restaurants"
    /\ RestaurantsWrite("handleRestaurantClick", restaurantId,
           Updater("selectedRestaurant", restaurantId))

NextRestaurants ==
    \/ Mount("delivery-restaurants")
    \/ Unmount
    \/ Render
    \/ \E sortBy \in SortKeys : HandleSort(sortBy)
    \/ \E restaurantId \in Restaurants : HandleToggleFavoriteRestaurant(restaurantId)
    \/ \E restaurantId \in Restaurants : HandleRestaurantClick(restaurantId)

(***************************************************************************)
(* The registry as the import of the server module builds it: the widgets  *)
(* list, entry by entry, then the two lookup tables.                       *)
(***************************************************************************)
\* At most this many entries are written in the widgets list.
MaxWidgets == 3

\* The entries a developer may write in the list: two with the same
\* identifier, two with the same template_uri.
ToolAEntry ==
    [identifier |-> "tool-a", title |-> "Tool A",
     template_uri |-> "ui://widget/widget.html",
     invoking |-> "Loading A...", invoked |-> "Loaded A",
     component |-> WidgetName, response_text |-> "Successfully loaded data"]
ToolAAgainEntry ==
    [identifier |-> "tool-a", title |-> "Tool A (second)",
     template_uri |-> "ui://widget/widget-a.html",
     invoking |-> "Loading A2...", invoked |-> "Loaded A2",
     component |-> WidgetAName, response_text |-> "Successfully loaded data"]
ToolBEntry ==
    [identifier |-> "tool-b", title |-> "Tool B",
     template_uri |-> "ui://widget/widget.html",
     invoking |-> "Loading B...", invoked |-> "Loaded B",
     component |-> WidgetName, response_text |-> "Successfully loaded data"]
WidgetEntries == {ToolAEntry, ToolAAgainEntry, ToolBEntry}

\* The files the build has written when the module is imported.
ImportFiles == {FileWidget, FileA}

\* MyWidget(..., html=_load_widget_html(component), ...)
MyWidget(entry, html) ==
    [identifier |-> entry.identifier, title |-> entry.title,
     template_uri |-> entry.template_uri, invoking |-> entry.invoking,
     invoked |-> entry.invoked, html |-> html,
     response_text |-> entry.response_text]

EmptyTable == [k \in {} |-> TRUE]

\* A table in which the first entry with a key stays
IndexByFirst(list, key) ==
    [k \in {list[i][key] : i \in DOMAIN list} |->
        list[CHOOSE i \in DOMAIN list :
                 /\ list[i][key] = k
                 /\ \A j \in DOMAIN list : list[j][key] = k => i <= j]]

\* {w.<key>: w for w in widgets}: a later entry replaces an earlier one
IndexBy(list, key) ==
    [k \in {list[i][key] : i \in DOMAIN list} |->
        list[CHOOSE i \in DOMAIN list :
                 /\ list[i][key] = k
                 /\ \A j \in DOMAIN list : list[j][key] = k => j <= i]]

\* _list_tools(): one Tool per entry of the list, in its order
ListTools(list) == [i \in DOMAIN list |-> list[i].identifier]

InitRegistry ==
    /\ phase = "building"
    /\ widgetList = <<>>
    /\ byId = EmptyTable
    /\ byUri = EmptyTable

\* The next entry of the list literal is evaluated: _load_widget_html is
\* called for it; FileNotFoundError ends the import.
BuildWidget(entry) ==
    /\ phase = "building"
    /\ Len(widgetList) < MaxWidgets
    /\ CallLoadWidgetHtml(entry.component)
    /\ IF resolved'.kind = "ok"
       THEN /\ widgetList' = Append(widgetList, MyWidget(entry, resolved'.content))
            /\ UNCHANGED phase
       ELSE /\ phase' = "failed"
            /\ UNCHANGED widgetList
    /\ UNCHANGED <<byId, byUri>>
    /\ UNCHANGED notRegistryVars

\* The list is complete: WIDGETS_BY_ID and WIDGETS_BY_URI are built.
BuildTables ==
    /\ phase = "building"
    /\ widgetList # <<>>
    /\ byId' = IndexBy(widgetList, "identifier")
    /\ byUri' = IndexBy(widgetList, "template_uri")
    /\ phase' = "ready"
    /\ UNCHANGED widgetList
    /\ UNCHANGED resolverVars
    /\ UNCHANGED notRegistryVars

\* The build writes an asset before or while the module is imported.
BuildAsset(f, h) ==
    /\ phase = "building"
    /\ WriteFile(f, h)

NextRegistry ==
    \/ \E f \in ImportFiles, h \in Contents : BuildAsset(f, h)
    \/ \E entry \in WidgetEntries : BuildWidget(entry)
    \/ BuildTables

(***************************************************************************)
(* Several invocations at once: the transport hands each CallToolRequest   *)
(* to its own run of the coroutine _call_tool_request; a run waits at      *)
(* `await _fetch_from_api(...)`, and the caller may go away meanwhile.     *)
(***************************************************************************)
\* At most this many invocations are accepted.
MaxTasks == 2

TaskIds == 1..MaxTasks

\* The concurrency limit the specification has injected; the listing has none.
ConcurrencyLimit == 1

\* The requests and the handler behaviours of this specification.
ValidArguments == Arguments(FALSE, [n \in {"query"} |-> StrArg("pizza")])
NoArguments == Arguments(TRUE, <<>>)
ServerArguments == {ValidArguments, NoArguments}
ServerNames == {"tool-a", "no-such-tool"}
MockBehaviour == [kind |-> "mock", results |-> <<>>, text |-> ""]
HttpErrorBehaviour == [kind |-> "http_error", results |-> <<>>, text |-> "connect timeout"]
ServerBehaviours == {MockBehaviour, HttpErrorBehaviour}
ServerTimestamp == "2025-01-01T00:00:00"

\* asyncio.CancelledError, a BaseException: raised in the coroutine at its
\* await when the task is cancelled.
CancelledError == Raised("asyncio.CancelledError", "BaseException", "")

IdleTask ==
    [pc |-> "idle", req |-> NoRequest, payload |-> NoPayload,
     outcome |-> NoOutcome, result |-> NoResult, startedWith |-> {}]

\* The invocations whose handler is in flight.
InFlight == {t \in TaskIds : tasks[t].pc = "awaiting"}

InitServer == tasks = [t \in TaskIds |-> IdleTask]

\* A run that starts only when no other handler is in flight
TaskStartExclusive(t, name, a) ==
    /\ InFlight = {}
    /\ tasks[t].pc = "idle"
    /\ LET w == LookupWidget(name)
           v == ModelValidate(ArgumentsOrEmpty(a))
           started == [IdleTask EXCEPT !.req = [name |-> name, arguments |-> a],
                                       !.startedWith = InFlight]
       IN tasks' = [tasks EXCEPT ![t] =
              IF ~w.found
              THEN [started EXCEPT !.pc = "done", !.result = UnknownToolResult(name)]
              ELSE IF v.errors # {}
              THEN [started EXCEPT !.pc = "done",
                                   !.result = ValidationErrorResult(v.errors)]
              ELSE [started EXCEPT !.pc = "awaiting",
                                   !.payload = [valid |-> TRUE, query |-> v.query,
                                                limit |-> v.limit]]]
    /\ UNCHANGED notServerVars

\* lines 497-520 for invocation t: lookup, validation, the call of the handler.
TaskStart(t, name, a) ==
    /\ tasks[t].pc = "idle"
    /\ LET w == LookupWidget(name)
           v == ModelValidate(ArgumentsOrEmpty(a))
           started == [IdleTask EXCEPT !.req = [name |-> name, arguments |-> a],
                                       !.startedWith = InFlight]
       IN tasks' = [tasks EXCEPT ![t] =
              IF ~w.found
              THEN [started EXCEPT !.pc = "done", !.result = UnknownToolResult(name)]
              ELSE IF v.errors # {}
              THEN [started EXCEPT !.pc = "done",
                                   !.result = ValidationErrorResult(v.errors)]
              ELSE [started EXCEPT !.pc = "awaiting",
                                   !.payload = [valid |-> TRUE, query |-> v.query,
                                                limit |-> v.limit]]]
    /\ UNCHANGED notServerVars

\* lines 520-560 for invocation t: the handler returns or raises, the result
\* is built and returned.
TaskFinish(t, b, timestamp) ==
    /\ tasks[t].pc = "awaiting"
    /\ LET f == FetchFromApi(b, tasks[t].payload.query, tasks[t].payload.limit)
           w == LookupWidget(tasks[t].req.name).widget
       IN tasks' = [tasks EXCEPT
              ![t].outcome = f,
              ![t].result = IF f.raised THEN ExceptionResult(f.exc)
                            ELSE SuccessResult(w, f.items, tasks[t].payload.query,
                                               timestamp),
              ![t].pc = "done"]
    /\ UNCHANGED notServerVars

\* The caller disconnects while the handler of invocation t is in flight:
\* CancelledError is raised at the await; what the except clauses make of it
\* is what the coroutine returns, if anything.
TaskCancel(t) ==
    /\ tasks[t].pc = "awaiting"
    /\ tasks' = [tasks EXCEPT
           ![t].outcome = CancelledError,
           ![t].result = ExceptionResult(CancelledError.exc),
           ![t].pc = IF ExceptionResult(CancelledError.exc).returned
                     THEN "done" ELSE "cancelled"]
    /\ UNCHANGED notServerVars

NextServer ==
    \/ \E t \in TaskIds, name \in ServerNames, a \in ServerArguments :
          TaskStart(t, name, a)
    \/ \E t \in TaskIds, b \in ServerBehaviours : TaskFinish(t, b, ServerTimestamp)
    \/ \E t \in TaskIds : TaskCancel(t)

Init == InitResolver /\ InitDispatcher /\ InitWidget /\ InitRegistry /\ InitServer

SpecDispatcher == Init /\ [][NextDispatcher]_vars

SpecResolver == Init /\ [][NextResolver]_vars

SpecWidget == Init /\ [][NextWidget]_vars

SpecQuick == Init /\ [][NextQuick]_vars

SpecRestaurants == Init /\ [][NextRestaurants]_vars

SpecKitchen == Init /\ [][NextKitchen]_vars

\* The promise callTool returned settles: the host resolves or rejects it.
FairSpecKitchen ==
    SpecKitchen /\ WF_vars(\E resolved_ \in BOOLEAN : CallToolSettles(resolved_))

SpecRegistry == Init /\ [][NextRegistry]_vars

SpecServer == Init /\ [][NextServer]_vars

\* Each run of the coroutine goes on: the handler's await ends (the HTTP
\* client returns or raises, at the latest on its timeout).
FairSpecServer ==
    /\ SpecServer
    /\ \A t \in TaskIds :
          WF_vars(\E b \in ServerBehaviours : TaskFinish(t, b, ServerTimestamp))

(***************************************************************************)
(* Properties of the dispatcher, checked under SpecDispatcher.             *)
(***************************************************************************)
\* The identifiers of the registry.
RegisteredIds == {widgets[i].identifier : i \in DOMAIN widgets}

\* The ToolDefinition of a registered identifier.
DefinitionOf(id) ==
    widgets[CHOOSE i \in DOMAIN widgets : widgets[i].identifier = id]

\* The arguments of the request being served, None read as the empty map.
ReqArgs == ArgumentsOrEmpty(req.arguments)

\* The message of the result, and the interpolated values of its f-string.
ResultMessage == result.content[1].text

\* The failure kind a caller can tell from the wire form of an error result.
FailureKind ==
    IF ~(result.returned /\ result.isError) THEN "none"
    ELSE CASE ResultMessage.fmt = "Unknown tool: {}" -> "UnknownTool"
           [] ResultMessage.fmt = "Validation error: {}" -> "ValidationError"
           [] ResultMessage.fmt \in {"API error: {}", "Error: {}"} -> "HandlerError"
           [] OTHER -> "other"

\* The handler did not run in the invocation being served.
NoHandlerSideEffect == fetchCalls = 0 /\ ~outcome.called

\* C1: an invocation of an identifier that is not in the registry ends at
\* once with an error result "Unknown tool: <identifier>" (isError, a
\* message, no structured content), whatever the arguments, and the handler
\* is not called.
UnknownToolYieldsFailure ==
    (pc # "idle" /\ req.name \notin RegisteredIds) =>
        /\ pc = "done"
        /\ result.returned /\ result.isError
        /\ FailureKind = "UnknownTool"
        /\ ResultMessage.args = <<req.name>>
        /\ ~result.structuredContent.present
        /\ NoHandlerSideEffect

\* An unknown tool was invoked with arguments that would have been valid.
UnknownToolWitness ==
    /\ pc = "done"
    /\ req.name \notin RegisteredIds
    /\ ~req.arguments.isNone
    /\ "query" \in DOMAIN req.arguments.map
    /\ req.arguments.map["query"].t = "str"
    /\ DOMAIN req.arguments.map = {"query"}
    /\ result.isError

\* C2: a registered tool invoked without a field the advertised input schema
\* requires ends with a "Validation error" result whose error list holds a
\* "missing" error located at that field, and the handler is not called.
MissingRequiredYieldsValidationError ==
    \A f \in TOOL_INPUT_SCHEMA.required :
        (pc # "idle" /\ req.name \in RegisteredIds /\ f \notin DOMAIN ReqArgs) =>
            /\ pc = "done"
            /\ FailureKind = "ValidationError"
            /\ [type |-> "missing", loc |-> f] \in ResultMessage.args[1]
            /\ ~result.structuredContent.present
            /\ NoHandlerSideEffect

\* A registered tool was invoked with a well-typed limit and no query.
MissingRequiredWitness ==
    /\ pc = "done"
    /\ req.name \in RegisteredIds
    /\ DOMAIN ReqArgs = {"limit"}
    /\ ReqArgs["limit"].t = "int"
    /\ FailureKind = "ValidationError"

\* C3: a registered tool invoked with an argument whose name the advertised
\* schema does not declare ends with a "Validation error" result that names
\* every such argument, also when the declared fields are all well typed,
\* and the handler is not called.
UnknownFieldYieldsValidationError ==
    (pc # "idle" /\ req.name \in RegisteredIds
        /\ DOMAIN ReqArgs \ TOOL_INPUT_SCHEMA.properties # {}) =>
            /\ pc = "done"
            /\ FailureKind = "ValidationError"
            /\ \A f \in DOMAIN ReqArgs \ TOOL_INPUT_SCHEMA.properties :
                   [type |-> "extra_forbidden", loc |-> f] \in ResultMessage.args[1]
            /\ ~result.structuredContent.present
            /\ NoHandlerSideEffect

\* The only fault of the arguments was the undeclared field.
UnknownFieldWitness ==
    /\ pc = "done"
    /\ req.name \in RegisteredIds
    /\ DOMAIN ReqArgs = {"query", "limit", "page"}
    /\ ReqArgs["query"].t = "str"
    /\ ReqArgs["limit"].t = "int"
    /\ FailureKind = "ValidationError"
    /\ \A e \in ResultMessage.args[1] : e.type = "extra_forbidden" /\ e.loc = "page"

ExactlySuccessOrFailure ==
    /\ pc = "done" => result.returned
    /\ result.returned =>
           /\ result.isError # result.structuredContent.present
           /\ result.isError =>
                  /\ Len(result.content) = 1
                  /\ FailureKind \in {"UnknownTool", "ValidationError", "HandlerError"}
                  /\ ~result.meta.present

\* A success with items was returned.
SuccessWitness ==
    /\ pc = "done"
    /\ result.returned
    /\ ~result.isError
    /\ result.structuredContent.present
    /\ result.structuredContent.total_count > 0

\* C7 as stated: the metadata of a success holds the resource identifier and
\* the two status strings of the tool's definition.
SuccessMetaHasResourceAndStatus ==
    (result.returned /\ ~result.isError) =>
        /\ result.meta.present
        /\ "openai/outputTemplate" \in DOMAIN result.meta.map
        /\ result.meta.map["openai/outputTemplate"] = DefinitionOf(req.name).template_uri
        /\ result.meta.map["openai/toolInvocation/invoking"] = DefinitionOf(req.name).invoking
        /\ result.meta.map["openai/toolInvocation/invoked"] = DefinitionOf(req.name).invoked

\* C7, amended: the metadata of a success holds exactly the two status
\* strings, each equal to the one of the tool's definition; the resource
\* identifier is in the listings' metadata (_tool_meta), not in the result's.
SuccessMetaHasStatusStrings ==
    (result.returned /\ ~result.isError) =>
        /\ result.meta.present
        /\ DOMAIN result.meta.map =
               {"openai/toolInvocation/invoking", "openai/toolInvocation/invoked"}
        /\ result.meta.map["openai/toolInvocation/invoking"] = DefinitionOf(req.name).invoking
        /\ result.meta.map["openai/toolInvocation/invoked"] = DefinitionOf(req.name).invoked
        /\ ToolMeta(DefinitionOf(req.name))["openai/outputTemplate"]
               = DefinitionOf(req.name).template_uri

\* The second tool returned a success.
SuccessMetaWitness ==
    /\ pc = "done"
    /\ req.name = "tool-b"
    /\ result.returned
    /\ ~result.isError
    /\ result.meta.present

(***************************************************************************)
(* Properties of the resolver, checked under SpecResolver.                 *)
(***************************************************************************)
\* f is a variant of base: base, "-", any suffix, ".html".
IsVariantOf(f, base) ==
    LET n == Len(f) - Len(base) - Len(DashSep) - Len(HtmlExt)
    IN /\ n >= 0
       /\ f = base \o DashSep \o SubSeq(f, Len(base) + 2, Len(base) + 1 + n) \o HtmlExt

\* The variants of base the assets directory holds.
StoredVariants(base) == {f \in FileNames : files[f] # Absent /\ IsVariantOf(f, base)}

\* The greatest name of a set of names.
GreatestName(S) == CHOOSE g \in S : \A h \in S \ {g} : LexLess(h, g)

\* This step is a call of _load_widget_html: only such a step changes the
\* state and leaves the assets directory as it is; resolved' describes it.
IsLoadStep == files' = files /\ vars' # vars /\ resolved'.component \in Components

\* C8: after the first successful resolution of a component, every later one
\* succeeds with the content of the first, and the body has read a file for
\* that component exactly once, whatever happens to the stored files.
ResolveIdempotentCached ==
    /\ \A c \in Components :
           /\ loads[c] <= 1
           /\ first[c] # NoFirst => loads[c] = 1
    /\ (resolved.kind # "none" /\ first[resolved.component] # NoFirst) =>
           /\ resolved.kind = "ok"
           /\ resolved.content = first[resolved.component].content

\* A resolution was served from the cache after the stored files changed: a
\* fresh load would now fail or give another content.
ResolveCachedWitness ==
    /\ resolved.kind = "ok"
    /\ resolved.hit
    /\ loads[resolved.component] = 1
    /\ LET r == LoadBody(files, resolved.component)
       IN r.kind # "ok" \/ files[r.file] # resolved.content

\* C9 as stated: with widget.html, widget-aaa.html and widget-bbb.html stored,
\* a load of "widget" returns the content of widget-bbb.html.
FallbackScenarioAsStated ==
    [][(/\ IsLoadStep
        /\ resolved'.component = WidgetName
        /\ ~resolved'.hit
        /\ Exists(files, FileWidget)
        /\ Exists(files, FileAaa)
        /\ Exists(files, FileBbb))
       => (resolved'.kind = "ok" /\ resolved'.content = files[FileBbb])]_vars

\* C9, amended: a load that is not served from the cache and finds no exact
\* file <base>.html returns the content of the stored variant with the
\* greatest name, when there is one; with widget-aaa.html and widget-bbb.html
\* stored and no widget.html, that is the content of widget-bbb.html.
FallbackPicksGreatestVariant ==
    [][\A c \in Components :
        (/\ IsLoadStep
         /\ resolved'.component = c
         /\ ~resolved'.hit
         /\ ~Exists(files, HtmlPath(c))
         /\ StoredVariants(c) # {})
        => (/\ resolved'.kind = "ok"
            /\ resolved'.content = files[GreatestName(StoredVariants(c))]
            /\ (c = WidgetName /\ StoredVariants(c) = {FileAaa, FileBbb})
                   => resolved'.content = files[FileBbb])]_vars

\* "widget" was loaded with widget-aaa.html and widget-bbb.html stored, of
\* different contents, and no widget.html: the content is that of widget-bbb.html.
FallbackWitness ==
    /\ resolved.component = WidgetName
    /\ resolved.kind = "ok"
    /\ ~resolved.hit
    /\ resolved.searched
    /\ ~Exists(files, FileWidget)
    /\ Exists(files, FileAaa)
    /\ Exists(files, FileBbb)
    /\ files[FileAaa] # files[FileBbb]
    /\ resolved.content = files[FileBbb]

\* C10 as stated, in its weakest reading: whenever the exact file of a
\* component is stored, a resolution returns the content that file holds, or
\* at least content that was read from that file and not from a variant.
ExactPriorityAsStated ==
    [][(IsLoadStep /\ Exists(files, HtmlPath(resolved'.component)))
       => (/\ resolved'.kind = "ok"
           /\ \/ resolved'.content = files[HtmlPath(resolved'.component)]
              \/ resolved'.file = HtmlPath(resolved'.component))]_vars

\* C10, amended: a load that is not served from the cache returns the
\* content of the exact file whenever it is stored, whatever variants are
\* stored, and runs the fallback search only when the exact file is absent.
ExactPriorityOnLoad ==
    [][(IsLoadStep /\ ~resolved'.hit)
       => (/\ Exists(files, HtmlPath(resolved'.component)) =>
                  /\ resolved'.kind = "ok"
                  /\ resolved'.file = HtmlPath(resolved'.component)
                  /\ resolved'.content = files[HtmlPath(resolved'.component)]
                  /\ ~resolved'.searched
           /\ resolved'.searched => ~Exists(files, HtmlPath(resolved'.component)))]_vars

\* A component was loaded from its exact file while a variant of another
\* content was stored.
ExactPriorityWitness ==
    /\ resolved.kind = "ok"
    /\ ~resolved.hit
    /\ ~resolved.searched
    /\ Exists(files, HtmlPath(resolved.component))
    /\ resolved.file = HtmlPath(resolved.component)
    /\ resolved.content = files[HtmlPath(resolved.component)]
    /\ \E v \in StoredVariants(resolved.component) : files[v] # resolved.content

WriteOps ==
    {"selectItem", "highlightToggle", "handleSaveWidgetState", "handleAddToCart",
     "handleRemoveFromCart", "handleRemoveAllFromCart", "handleToggleFavorite",
     "handleViewCart", "handleBackToBrowse"}

\* The document current at the time of a write: the one the host holds, or
\* the default of the widget's type.
CurrentOrDefault == IF hostState.present THEN hostState.doc ELSE DefaultOf(app)

MergeWriteKeepsOtherFields ==
    [][/\ lastOp'.op \in {"handleViewCart", "handleBackToBrowse"}
          => /\ hostState'.present
             /\ DOMAIN hostState'.doc = DOMAIN CurrentOrDefault \cup {"viewMode"}
             /\ hostState'.doc.viewMode =
                    (IF lastOp'.op = "handleViewCart" THEN "cart" ELSE "browse")
             /\ \A f \in DOMAIN CurrentOrDefault \ {"viewMode"} :
                    hostState'.doc[f] = CurrentOrDefault[f]
       /\ lastOp'.op = "handleSaveWidgetState"
          => /\ hostState'.present
             /\ DOMAIN hostState'.doc =
                    DOMAIN CurrentOrDefault \cup {"note", "highlight", "savedAt"}
             /\ hostState'.doc.note = noteDraft
             /\ hostState'.doc.highlight = highlightDraft
             /\ hostState'.doc.savedAt \in SaveTimes
             /\ \A f \in DOMAIN CurrentOrDefault \ {"note", "highlight", "savedAt"} :
                    hostState'.doc[f] = CurrentOrDefault[f]]_vars

MergeWriteWitness ==
    /\ lastOp.op = "handleViewCart"
    /\ hostState.present
    /\ hostState.doc.viewMode = "cart"
    /\ hostState.doc.cart # <<>>
    /\ hostState.doc.favorites # <<>>

OnlyWritesChangeState ==
    [][/\ (mounted /\ mounted' /\ hostState' # hostState) => lastOp'.op \in WriteOps
       /\ lastOp'.op \in {"handleCallTool", "callToolSettles", "toolOutput",
                          "handleRequestDisplayMode", "handleSendFollowUp",
                          "handleRequestFullscreen"}
          => hostState' = hostState]_vars

StateSurvivesToolCallWitness ==
    /\ lastOp.op = "callToolSettles"
    /\ callResult # Null
    /\ hostState.present
    /\ hostState.doc.note = "buy milk"

FreshAddToCartP1 ==
    [cart |-> <<[product_id |-> "p1", quantity |-> 1]>>, favorites |-> <<>>,
     viewMode |-> "browse"]

FreshCartOf(productId) ==
    [cart |-> <<[product_id |-> productId, quantity |-> 1]>>, favorites |-> <<>>,
     viewMode |-> "browse"]

FreshFavoriteOf(productId) ==
    [cart |-> <<>>, favorites |-> <<productId>>, viewMode |-> "browse"]

FreshViewCart == [cart |-> <<>>, favorites |-> <<>>, viewMode |-> "cart"]

LastIndexWith(list, key, k) ==
    CHOOSE i \in DOMAIN list :
        /\ list[i][key] = k
        /\ \A j \in DOMAIN list : list[j][key] = k => j <= i

\* C17 as stated: identifiers are unique in the registry at all times (an
\* entry whose identifier is already registered is refused and the earlier
\* definition stays the one a lookup returns).
IdentifiersUnique ==
    /\ \A i, j \in DOMAIN widgetList :
           i # j => widgetList[i].identifier # widgetList[j].identifier
    /\ phase = "ready" =>
           \A i \in DOMAIN widgetList :
               byId[widgetList[i].identifier] = widgetList[i]

\* C17, amended: nothing checks identifiers.  An entry that repeats an
\* identifier is accepted and stays in the list, so the tool listing names
\* every entry, and the lookup by identifier returns the last entry written
\* with it; entries may share a resource identifier, and the lookup by
\* resource identifier returns the last entry with it.
DuplicateIdentifierLastWins ==
    /\ phase # "failed" => Len(ListTools(widgetList)) = Len(widgetList)
    /\ phase = "ready" =>
         /\ DOMAIN byId = {widgetList[i].identifier : i \in DOMAIN widgetList}
         /\ DOMAIN byUri = {widgetList[i].template_uri : i \in DOMAIN widgetList}
         /\ \A i \in DOMAIN widgetList :
              /\ ListTools(widgetList)[i] = widgetList[i].identifier
              /\ byId[widgetList[i].identifier] =
                   widgetList[LastIndexWith(widgetList, "identifier",
                                            widgetList[i].identifier)]
              /\ byUri[widgetList[i].template_uri] =
                   widgetList[LastIndexWith(widgetList, "template_uri",
                                            widgetList[i].template_uri)]

DuplicateIdentifierWitness ==
    /\ phase = "ready"
    /\ Len(widgetList) = 3
    /\ widgetList[1].identifier = "tool-a" /\ widgetList[1].title = "Tool A"
    /\ widgetList[2].identifier = "tool-a" /\ widgetList[2].title = "Tool A (second)"
    /\ widgetList[3].identifier = "tool-b"
    /\ widgetList[3].template_uri = widgetList[1].template_uri
    /\ byId["tool-a"].title = "Tool A (second)"
    /\ byUri[widgetList[1].template_uri].identifier = "tool-b"


SameExceptionWithText(t) == [outcome.exc EXCEPT !.text = t]

\* C21 as stated: the message of the error result of a handler exception
\* does not depend on the text of the exception: had the exception carried
\* any other text, the caller would have received the same result.
ExceptionTextNotInMessage ==
    (pc = "done" /\ outcome.raised /\ result.returned) =>
        \A t \in ExcTexts : ExceptionResult(SameExceptionWithText(t)) = result

(***************************************************************************)
(* Properties of the cart of DeliveryQuickApp, checked under SpecWidget.   *)
(***************************************************************************)
\* The cart the host holds: widgetState?.cart || []
HeldCart == IF hostState.present THEN CartOf(hostState.doc) ELSE <<>>

\* Every product_id occurs in at most one entry, every quantity is >= 1.
CartWellFormed(c) ==
    /\ \A i, j \in DOMAIN c : c[i].product_id = c[j].product_id => i = j
    /\ \A i \in DOMAIN c : c[i].quantity >= 1

\* C22: starting from the empty cart, after any sequence of handleAddToCart,
\* handleRemoveFromCart and handleRemoveAllFromCart, every product_id occurs
\* in at most one cart entry and every entry has quantity >= 1.
CartInvariant ==
    app = "delivery-quick" =>
        /\ CartWellFormed(HeldCart)
        /\ rendered.present => CartWellFormed(CartOf(rendered.doc))

\* handleRemoveFromCart took the last unit of p1 out of a cart of two products.
CartInvariantWitness ==
    /\ app = "delivery-quick"
    /\ lastOp.op = "handleRemoveFromCart"
    /\ rendered.present
    /\ CartOf(rendered.doc) =
           <<[product_id |-> "p1", quantity |-> 1], [product_id |-> "p2", quantity |-> 2]>>
    /\ HeldCart = <<[product_id |-> "p2", quantity |-> 2]>>

(***************************************************************************)
(* Properties of DeliveryQuickApp checked under SpecQuick, where the       *)
(* category filter is in use and the tool output is replaced.              *)
(***************************************************************************)
\* What the host holds after setWidgetState(u) when it held h.
AfterWrite(h, u) == Held(WriteResult(h, QuickDefault, UpdaterWrite(u)))

\* The field f of document d: its value, or nothing when d has no such field.
FieldOf(d, f) == IF f \in DOMAIN d THEN {d[f]} ELSE {}

\* The fields of QuickWidgetState other than the cart.
OtherFields == {"favorites", "selectedCategory", "viewMode"}

\* C23: for every state S the widget reaches and every product p,
\* handleAddToCart(p) followed by handleRemoveFromCart(p) leaves a cart equal
\* to the cart of S, handleRemoveFromCart(p) of a product not in the cart
\* returns the state unchanged, and favorites, selectedCategory and viewMode
\* are as in S in both cases.
AddThenRemoveRestoresCart ==
    (app = "delivery-quick" /\ mounted) =>
        \A p \in Products :
            LET S == CurrentOrDefault
                added == AfterWrite(hostState, Updater("addToCart", p))
                removed == AfterWrite(added, Updater("removeFromCart", p))
                removedOnly == AfterWrite(hostState, Updater("removeFromCart", p))
            IN /\ CartOf(removed.doc) = CartOf(S)
               /\ \A f \in OtherFields :
                      /\ FieldOf(added.doc, f) = FieldOf(S, f)
                      /\ FieldOf(removed.doc, f) = FieldOf(S, f)
               /\ ~InCart(CartOf(S), p) => removedOnly.doc = S

\* Since the last render the widget added a product to a cart of two products
\* and removed it again, with a category selected, a favorite and the cart view.
AddThenRemoveWitness ==
    /\ app = "delivery-quick" /\ mounted
    /\ lastOp.op = "handleRemoveFromCart"
    /\ unrendered = 2
    /\ rendered = hostState
    /\ hostState.present
    /\ InCart(HeldCart, "p1") /\ InCart(HeldCart, "p2")
    /\ FieldOf(hostState.doc, "selectedCategory") = {"c1"}
    /\ FieldOf(hostState.doc, "favorites") = {<<"p2">>}
    /\ FieldOf(hostState.doc, "viewMode") = {"cart"}

\* The ids in the favorites list the host holds.
HeldFavorites == {FavoritesOf(hostState)[i] : i \in DOMAIN FavoritesOf(hostState)}

\* The ids favorited after toggling id in favs.
Toggled(favs, id) == IF id \in favs THEN favs \ {id} ELSE favs \cup {id}

\* C24 as stated: no favorite toggle is lost: a call of handleToggleFavorite
\* for an id that is not a favorite at the time of the call adds it and keeps
\* every id that is one, also when the widget has not rendered since the call
\* before (so that two calls for two distinct unfavorited ids leave both in
\* the list), and the list never holds an id twice.
NoFavoriteToggleLost ==
    [][(app = "delivery-quick" /\ lastOp'.op = "handleToggleFavorite") =>
          /\ lastOp'.id \notin HeldFavorites =>
                 HeldFavorites' = Toggled(HeldFavorites, lastOp'.id)
          /\ \A i, j \in DOMAIN FavoritesOf(hostState') :
                 FavoritesOf(hostState')[i] = FavoritesOf(hostState')[j] => i = j]_vars

(***************************************************************************)
(* Properties of the sort toggle of DeliveryRestaurantsApp, checked under  *)
(* SpecRestaurants.                                                        *)
(***************************************************************************)
\* C25 as stated: handleSort(k) sets sortBy to k, and sortOrder to asc exactly
\* when the state current at the call has sortBy = k and sortOrder = desc, to
\* desc otherwise (so repeated handleSort(k) alternates and a different key
\* starts at desc); sortOrder is asc or desc; favorites and the selected
\* restaurant are not changed.
SortToggleFollowsCurrentState ==
    [][(app = "delivery-restaurants" /\ lastOp'.op = "handleSort" /\ hostState.present) =>
          LET k == lastOp'.id
              S == hostState.doc
              T == hostState'.doc
          IN /\ T.sortBy = k
             /\ T.sortOrder = IF S.sortBy = k /\ S.sortOrder = "desc" THEN "asc" ELSE "desc"
             /\ FieldOf(T, "favorites") = FieldOf(S, "favorites")
             /\ FieldOf(T, "selectedRestaurant") = FieldOf(S, "selectedRestaurant")]_vars

(***************************************************************************)
(* The cart as DeliveryQuickApp shows it, checked under SpecQuick.         *)
(***************************************************************************)
\* cart.reduce((sum, item) => sum + item.quantity, 0)
RECURSIVE CartTotalItems(_)
CartTotalItems(cart) ==
    IF cart = <<>> THEN 0 ELSE Head(cart).quantity + CartTotalItems(Tail(cart))

\* CartView.cartProducts: the entries whose product products.find() finds
CartProducts(products, cart) ==
    SelectSeq(cart, LAMBDA item : item.product_id \in products)

\* The cart of the render: widgetState?.cart || []
RenderedCart == IF rendered.present THEN CartOf(rendered.doc) ELSE <<>>

\* C26 as stated: in every state the item count shown for the cart
\* (cartTotalItems) equals the sum of the quantities of the entries CartView
\* displays, those whose product exists in the current tool output.
CartCountMatchesCartView ==
    (app = "delivery-quick" /\ mounted) =>
        CartTotalItems(RenderedCart) =
            CartTotalItems(CartProducts(ProductsOf(toolOutput), RenderedCart))

CallResultAndErrorExclusive ==
    (app = "kitchen-sink-lite" /\ mounted) => ~(callResult # Null /\ callError # Null)

\* C29: when handleCallAnyTool finds callTool and the arguments text is
\* non-empty and not valid JSON, callTool is not invoked, anyToolError is
\* set, anyToolResult stays null and anyToolLoading is false again; a text
\* that is empty or only whitespace is sent as the empty argument map.
InvalidArgumentsMakeNoCall ==
    [][(lastOp'.op = "handleCallAnyTool" /\ lastOp'.id = "available") =>
          /\ (Trim(anyToolArgs) # <<>> /\ ~JsonParse(anyToolArgs).ok)
             => /\ anyToolCall' = NoCall
                /\ anyToolError' # Null
                /\ anyToolResult' = Null
                /\ ~anyToolLoading'
          /\ Trim(anyToolArgs) = <<>>
             => /\ anyToolCall' = [made |-> TRUE, arguments |-> EmptyDocument]
                /\ anyToolLoading'
                /\ anyToolError' = Null]_vars

\* After a call that resolved, handleCallAnyTool was given a text that is not
\* JSON.
InvalidArgumentsWitness ==
    /\ lastOp.op = "handleCallAnyTool"
    /\ lastOp.id = "available"
    /\ anyToolArgs = <<"{", "m">>
    /\ anyToolCall = NoCall
    /\ anyToolError = "Unexpected token in JSON"
    /\ anyToolResult = Null
    /\ ~anyToolLoading
    /\ Logged = 2

\* C30: the event log holds at most 12 entries and is ordered newest first:
\* each logEvent call puts the new entry at index 0, keeps the earlier
\* entries in their order behind it and drops only the oldest ones beyond 12.
EventLogNewestFirstAtMostCap ==
    /\ [](/\ Len(events) <= EventLogCap
          /\ \A i, j \in DOMAIN events : i < j => events[i] > events[j])
    /\ [][(mounted' /\ events' # events) =>
             /\ events'[1] = Logged + 1
             /\ Len(events') = Min(Len(events) + 1, EventLogCap)
             /\ Tail(events') = SubSeq(events, 1, Len(events') - 1)]_vars

\* The log has taken in one entry more than it keeps: the oldest is gone.
EventLogOverflowWitness ==
    /\ Logged = EventLogCap + 1
    /\ Len(events) = EventLogCap
    /\ events[EventLogCap] = 2
    /\ lastOp.op = "handleOpenExternal"

====
